---- MODULE Spec2Model ----
(***************************************************************************)
(* The evaluation core of the template engine: the dynamically typed value *)
(* model (src/value.rs), the per-scope StackFrame with its resolution      *)
(* order (src/renderer/stack_frame.rs) and the Context (src/context.rs).   *)
(*                                                                         *)
(* Text is modelled as a sequence of one-character strings, so that        *)
(* splitting a dotted path and parsing an array index are computed, not    *)
(* assumed.                                                                *)
(***************************************************************************)
EXTENDS Integers, Sequences, FiniteSets, TLC

VARIABLES
    stack,      \* the live frames, outermost first (the renderer's call stack)
    context,    \* the global Context consulted after the frames
    saved,      \* history: per frame, the resolution table seen when it was pushed
    op,         \* the operation performed last, with its arguments
    profile,    \* "debug" (overflow checks on) or "release" (wrapping arithmetic)
    frame,      \* SpecFrame: one StackFrame driven through its public methods
    target,     \* SpecContext: the Context being extended
    source,     \* SpecContext: the Context merged into target
    ptrValue,   \* SpecPointer: the value get_by_pointer is applied to
    ptrPath,    \* SpecPointer: the pointer text, grown one character at a time
    ptrResult,  \* SpecPointer: the result of the last get_by_pointer call
    input,      \* the arguments of the function a specification applies
    output      \* the outcome of applying it (NotCalled before the call)

vars == <<stack, context, saved, op, profile, frame, target, source,
          ptrValue, ptrPath, ptrResult, input, output>>

(***************************************************************************)
(* Bounds of the model.                                                    *)
(***************************************************************************)
MaxPathLen == 5

(***************************************************************************)
(* Option<T> and the outcome of a call (a call may also abort).            *)
(***************************************************************************)
Nil == [t |-> "nil"]
None == [st |-> "none", v |-> Nil]
Some(x) == [st |-> "some", v |-> x]
Panic == [st |-> "panic", v |-> Nil]
NotCalled == [st |-> "idle", v |-> Nil]

(***************************************************************************)
(* Values: the implementors of the Value trait.                            *)
(***************************************************************************)
VInt(n) == [t |-> "int", n |-> n]
VUInt(n) == [t |-> "uint", u |-> n]
VBool(b) == [t |-> "bool", b |-> b]
VStr(s) == [t |-> "str", s |-> s]
VArr(a) == [t |-> "arr", a |-> a]
VObj(o) == [t |-> "obj", o |-> o]

EmptyMap == [k \in {} |-> Nil]

is_array(v) == v.t = "arr"
is_object(v) == v.t = "obj"

\* usize::MAX, which no position or length of the model equals
USIZE_MAX == -1

\* Vec::get / serde_json::Value::get(usize)
get(v, index) ==
    IF is_array(v) /\ index # USIZE_MAX /\ index < Len(v.a) THEN Some(v.a[index + 1]) ELSE None

\* HashMap::get / serde_json::Value::get(&str)
get_prop(v, prop) == IF is_object(v) /\ prop \in DOMAIN v.o THEN Some(v.o[prop]) ELSE None

(***************************************************************************)
(* Text.                                                                   *)
(***************************************************************************)
Digits == {"0", "1", "2", "3", "4", "5", "6", "7", "8", "9"}

DigitValue(c) ==
    CASE c = "0" -> 0 [] c = "1" -> 1 [] c = "2" -> 2 [] c = "3" -> 3 [] c = "4" -> 4
      [] c = "5" -> 5 [] c = "6" -> 6 [] c = "7" -> 7 [] c = "8" -> 8 [] c = "9" -> 9

\* str::find('.'): the zero-based position of the first dot, -1 for None
find_dot(s) ==
    IF \E i \in 1..Len(s) : s[i] = "."
    THEN (CHOOSE i \in 1..Len(s) : s[i] = "." /\ \A j \in 1..(i - 1) : s[j] # ".") - 1
    ELSE -1

\* &s[from..to] with zero-based, half-open bounds
slice(s, from, to) == SubSeq(s, from + 1, to)

\* str::split('.'): always at least one piece, empty pieces kept
RECURSIVE split_dot(_)
split_dot(s) ==
    LET dot == find_dot(s)
    IN  IF dot = -1 THEN <<s>>
        ELSE <<slice(s, 0, dot)>> \o split_dot(slice(s, dot + 1, Len(s)))

\* the digits of an unsigned decimal, most significant first
RECURSIVE digits_value(_, _)
digits_value(s, acc) ==
    IF s = <<>> THEN Some(acc)
    ELSE IF Head(s) \in Digits THEN digits_value(Tail(s), acc * 10 + DigitValue(Head(s)))
    ELSE None

\* <usize as FromStr>::from_str: an optional '+', then one or more digits
parse_usize(s) ==
    IF s = <<>> THEN None
    ELSE IF Head(s) \in {"+", "-"} /\ Len(s) = 1 THEN None
    ELSE IF Head(s) = "+" THEN digits_value(Tail(s), 0)
    ELSE digits_value(s, 0)

(***************************************************************************)
(* Nested addressing (Value::get_by_key, Value::get_by_pointer).           *)
(***************************************************************************)
\* a parse failure taken as index 0 instead of not-found
get_by_key_index_default(v, key) ==
    IF is_array(v)
    THEN LET index == parse_usize(key)
         IN  IF index.st = "none" THEN get(v, 0) ELSE get(v, index.v)
    ELSE IF is_object(v) THEN get_prop(v, key)
    ELSE None

get_by_key(v, key) ==
    IF is_array(v)
    THEN LET index == parse_usize(key)
         IN  IF index.st = "none" THEN None ELSE get(v, index.v)
    ELSE IF is_object(v) THEN get_prop(v, key)
    ELSE None

RECURSIVE walk_path(_, _)
walk_path(result, path) ==
    IF path = <<>> THEN Some(result)
    ELSE LET next == get_by_key(result, Head(path))
         IN  IF next.st = "none" THEN None ELSE walk_path(next.v, Tail(path))

get_by_pointer(v, pointer) ==
    LET path == split_dot(pointer)
        first == get_by_key(v, Head(path))
    IN  IF first.st = "none" THEN None ELSE walk_path(first.v, Tail(path))

(***************************************************************************)
(* Names and path segments used by the frames.                             *)
(***************************************************************************)
s_x == <<"x">>
s_y == <<"y">>
s_z == <<"z">>
s_k == <<"k">>
s_a == <<"a">>
s_b == <<"b">>
s_id == <<"i", "d">>
s_item == <<"i", "t", "e", "m">>
s_loop == <<"l", "o", "o", "p">>
s_index == <<"i", "n", "d", "e", "x">>
s_index0 == <<"i", "n", "d", "e", "x", "0">>
s_first == <<"f", "i", "r", "s", "t">>
s_last == <<"l", "a", "s", "t">>
s_empty == <<>>

Dotted(head, tail) == head \o <<".">> \o tail

(***************************************************************************)
(* ForLoop state (renderer::for_loop::ForLoop): the position, the declared *)
(* names and the iterated collection; keys is empty unless the loop        *)
(* iterates key/value pairs.                                               *)
(***************************************************************************)
ForLoop(key_name, value_name, keys, values) ==
    [key_name |-> key_name, value_name |-> value_name, current |-> 0,
     keys |-> keys, values |-> values]

for_loop_len(fl) == Len(fl.values)

is_key(fl, key) == fl.key_name.st = "some" /\ key = fl.key_name.v

\* the current key, a reference: there is none to return past the end
get_current_key(fl) ==
    IF fl.current < Len(fl.keys) THEN Some(VStr(fl.keys[fl.current + 1])) ELSE Panic

\* the current element, a reference: there is none to return past the end
get_current_value(fl) ==
    IF fl.current < Len(fl.values) THEN Some(fl.values[fl.current + 1]) ELSE Panic

increment(fl) == [fl EXCEPT !.current = @ + 1]

(***************************************************************************)
(* StackFrame.  active_template is a reference no method below reads.      *)
(***************************************************************************)
FrameType == {"Origin", "Macro", "ForLoop", "Include"}

new(kind, name) ==
    [kind |-> kind, name |-> name, context |-> EmptyMap,
     for_loop |-> None, macro_namespace |-> None]

new_for_loop(name, for_loop) ==
    [kind |-> "ForLoop", name |-> name, context |-> EmptyMap,
     for_loop |-> Some(for_loop), macro_namespace |-> None]

\* the arguments dropped: the frame starts out empty
new_macro_no_args(name, macro_namespace, ctx) ==
    [kind |-> "Macro", name |-> name, context |-> EmptyMap,
     for_loop |-> None, macro_namespace |-> Some(macro_namespace)]

new_macro(name, macro_namespace, ctx) ==
    [kind |-> "Macro", name |-> name, context |-> ctx,
     for_loop |-> None, macro_namespace |-> Some(macro_namespace)]

new_include(name) ==
    [kind |-> "Include", name |-> name, context |-> EmptyMap,
     for_loop |-> None, macro_namespace |-> None]

\* HashMap::get on the frame's context
context_get(f, name) == IF name \in DOMAIN f.context THEN Some(f.context[name]) ELSE None

find_value_in_frame(f, key) ==
    LET dot == find_dot(key)
    IN  IF dot # -1
        THEN IF dot < Len(key) + 1
             THEN LET bound == context_get(f, slice(key, 0, dot))
                  IN  IF bound.st = "some"
                      THEN get_by_pointer(bound.v, slice(key, dot + 1, Len(key)))
                      ELSE None
             ELSE None
        ELSE context_get(f, key)

\* for_loop.len() - 1 on usize: aborts with overflow checks, wraps without
len_minus_one(fl) ==
    IF for_loop_len(fl) > 0 THEN Some(for_loop_len(fl) - 1)
    ELSE IF profile = "debug" THEN Panic
    ELSE Some(USIZE_MAX)

\* loop.index counted from 0
find_value_in_for_loop_index0(f, key) ==
    IF f.for_loop.st # "some" THEN None
    ELSE LET fl == f.for_loop.v
             tail_pos == find_dot(key)
             real_key == IF tail_pos # -1 THEN slice(key, 0, tail_pos) ELSE key
             tail == IF tail_pos # -1 THEN slice(key, tail_pos + 1, Len(key)) ELSE s_empty
         IN  IF is_key(fl, key) THEN get_current_key(fl)
             ELSE IF real_key = s_loop
             THEN CASE tail = s_index -> Some(VUInt(fl.current))
                    [] tail = s_index0 -> Some(VUInt(fl.current))
                    [] tail = s_first -> Some(VBool(fl.current = 0))
                    [] tail = s_last ->
                        LET last == len_minus_one(fl)
                        IN  IF last.st = "panic" THEN Panic
                            ELSE Some(VBool(fl.current = last.v))
                    [] OTHER -> None
             ELSE LET v == get_current_value(fl)
                  IN  IF v.st = "panic" THEN Panic
                      ELSE IF key = fl.value_name THEN v
                      ELSE IF real_key = fl.value_name /\ tail # s_empty
                      THEN get_by_pointer(v.v, tail)
                      ELSE None

\* v.<path> answered with the element itself
find_value_in_for_loop_no_path(f, key) ==
    IF f.for_loop.st # "some" THEN None
    ELSE LET fl == f.for_loop.v
             tail_pos == find_dot(key)
             real_key == IF tail_pos # -1 THEN slice(key, 0, tail_pos) ELSE key
             tail == IF tail_pos # -1 THEN slice(key, tail_pos + 1, Len(key)) ELSE s_empty
         IN  IF is_key(fl, key) THEN get_current_key(fl)
             ELSE IF real_key = s_loop
             THEN CASE tail = s_index -> Some(VUInt(fl.current + 1))
                    [] tail = s_index0 -> Some(VUInt(fl.current))
                    [] tail = s_first -> Some(VBool(fl.current = 0))
                    [] tail = s_last ->
                        LET last == len_minus_one(fl)
                        IN  IF last.st = "panic" THEN Panic
                            ELSE Some(VBool(fl.current = last.v))
                    [] OTHER -> None
             ELSE LET v == get_current_value(fl)
                  IN  IF v.st = "panic" THEN Panic
                      ELSE IF key = fl.value_name THEN v
                      ELSE IF real_key = fl.value_name /\ tail # s_empty
                      THEN v
                      ELSE None

find_value_in_for_loop(f, key) ==
    IF f.for_loop.st # "some" THEN None
    ELSE LET fl == f.for_loop.v
             tail_pos == find_dot(key)
             real_key == IF tail_pos # -1 THEN slice(key, 0, tail_pos) ELSE key
             tail == IF tail_pos # -1 THEN slice(key, tail_pos + 1, Len(key)) ELSE s_empty
         IN  IF is_key(fl, key) THEN get_current_key(fl)
             ELSE IF real_key = s_loop
             THEN CASE tail = s_index -> Some(VUInt(fl.current + 1))
                    [] tail = s_index0 -> Some(VUInt(fl.current))
                    [] tail = s_first -> Some(VBool(fl.current = 0))
                    [] tail = s_last ->
                        LET last == len_minus_one(fl)
                        IN  IF last.st = "panic" THEN Panic
                            ELSE Some(VBool(fl.current = last.v))
                    [] OTHER -> None
             ELSE LET v == get_current_value(fl)
                  IN  IF v.st = "panic" THEN Panic
                      ELSE IF key = fl.value_name THEN v
                      ELSE IF real_key = fl.value_name /\ tail # s_empty
                      THEN get_by_pointer(v.v, tail)
                      ELSE None

\* the local bindings never consulted
find_value_loop_only(f, key) == find_value_in_for_loop(f, key)

\* the for-loop state consulted before the local bindings
find_value_loop_first(f, key) ==
    LET found == find_value_in_for_loop(f, key)
    IN  IF found.st = "some" THEN found ELSE find_value_in_frame(f, key)

\* the lookup ended at a local binding named by the first segment, whether or
\* not the rest of the path resolves against it
find_value_stop_at_binding(f, key) ==
    LET dot == find_dot(key)
        name == IF dot # -1 THEN slice(key, 0, dot) ELSE key
    IN  IF name \in DOMAIN f.context THEN find_value_in_frame(f, key)
        ELSE find_value_in_for_loop(f, key)

find_value(f, key) ==
    LET found == find_value_in_frame(f, key)
    IN  IF found.st = "some" THEN found ELSE find_value_in_for_loop(f, key)

\* a present binding kept instead of replaced
insert_if_absent(f, key, value) ==
    [f EXCEPT !.context = [n \in DOMAIN @ \cup {key} |->
                            IF n \in DOMAIN @ THEN @[n] ELSE value]]

insert(f, key, value) ==
    [f EXCEPT !.context = [n \in DOMAIN @ \cup {key} |-> IF n = key THEN value ELSE @[n]]]

\* the test of clear_context inverted
clear_context_inverted(f) ==
    IF f.for_loop.st # "some" THEN [f EXCEPT !.context = EmptyMap] ELSE f

\* the for-loop state dropped together with the bindings
clear_context_drop_loop(f) ==
    IF f.for_loop.st = "some" THEN [f EXCEPT !.context = EmptyMap, !.for_loop = None] ELSE f

clear_context(f) ==
    IF f.for_loop.st = "some" THEN [f EXCEPT !.context = EmptyMap] ELSE f

(***************************************************************************)
(* Idle values of the variables a specification does not drive.            *)
(***************************************************************************)
NoOp == [name |-> "none", key |-> s_empty, value |-> Nil, result |-> NotCalled]
NoFrame == new("Origin", "unused")

IdleStack == stack = <<>> /\ context = EmptyMap /\ saved = <<>>
IdleFrame == frame = NoFrame
IdleContext == target = EmptyMap /\ source = EmptyMap
IdlePointer == ptrValue = Nil /\ ptrPath = s_empty /\ ptrResult = NotCalled
IdleCall == input = Nil /\ output = NotCalled

(***************************************************************************)
(* SpecPointer: get_by_pointer applied to every pointer text of at most    *)
(* MaxPathLen characters (array indices stay far below usize::MAX).        *)
(***************************************************************************)
PointerChars == {"a", ".", "0", "1", "+"}

PointerTexts == UNION {[1..n -> PointerChars] : n \in 0..MaxPathLen}

PointerValues ==
    { VObj(s_a :> VArr(<<VObj(s_a :> VInt(5)), VInt(6)>>)),
      VArr(<<VInt(1), VArr(<<VInt(2)>>)>>),
      VInt(7),
      VObj((<<"0">> :> VInt(3)) @@ (s_empty :> VObj(s_a :> VInt(4)))) }

InitPointer ==
    /\ ptrValue \in PointerValues
    /\ ptrPath \in PointerTexts
    /\ ptrResult = NotCalled
    /\ op = NoOp
    /\ profile = "debug"
    /\ IdleStack /\ IdleFrame /\ IdleContext /\ IdleCall

GetByPointer ==
    /\ ptrResult = NotCalled
    /\ ptrResult' = get_by_pointer(ptrValue, ptrPath)
    /\ op' = [NoOp EXCEPT !.name = "get_by_pointer", !.key = ptrPath]
    /\ UNCHANGED <<input, output, ptrValue, ptrPath, stack, context, saved, profile, frame, target, source>>

NextPointer == GetByPointer

SpecPointer == InitPointer /\ [][NextPointer]_vars

(***************************************************************************)
(* C10.  What a pointer denotes, stated without the traversal code: the    *)
(* segments are the stretches of text between dots, an array step needs a  *)
(* numeral of an index in bounds, an object step needs a present key.      *)
(***************************************************************************)
DotsOf(p) == {i \in 1..Len(p) : p[i] = "."}

\* the position of the n-th dot; 0 and Len(p) + 1 bracket the text
DotAt(p, n) ==
    IF n = 0 THEN 0
    ELSE IF n > Cardinality(DotsOf(p)) THEN Len(p) + 1
    ELSE CHOOSE d \in DotsOf(p) : Cardinality({e \in DotsOf(p) : e <= d}) = n

SegmentsOf(p) ==
    [j \in 1..(Cardinality(DotsOf(p)) + 1) |-> SubSeq(p, DotAt(p, j - 1) + 1, DotAt(p, j) - 1)]

\* seg is a decimal numeral of n (n < 10): an optional '+', zeros, the digit n
Denotes(seg, n) ==
    LET ds == IF seg # <<>> /\ seg[1] = "+" THEN SubSeq(seg, 2, Len(seg)) ELSE seg
    IN  /\ ds # <<>>
        /\ \A i \in 1..(Len(ds) - 1) : ds[i] = "0"
        /\ ds[Len(ds)] \in Digits
        /\ DigitValue(ds[Len(ds)]) = n

ChildOf(v, seg) ==
    IF v.t = "arr"
    THEN IF \E n \in 0..(Len(v.a) - 1) : Denotes(seg, n)
         THEN Some(v.a[(CHOOSE n \in 0..(Len(v.a) - 1) : Denotes(seg, n)) + 1])
         ELSE None
    ELSE IF v.t = "obj" /\ seg \in DOMAIN v.o THEN Some(v.o[seg])
    ELSE None

RECURSIVE ReachedBy(_, _)
ReachedBy(v, segs) ==
    IF segs = <<>> THEN Some(v)
    ELSE LET before == ReachedBy(v, SubSeq(segs, 1, Len(segs) - 1))
         IN  IF before.st = "none" THEN None ELSE ChildOf(before.v, segs[Len(segs)])

\* C10: get_by_pointer returns the value reached by applying each segment in
\* turn, as an array index or an object key, and not-found as soon as one
\* segment fails, for every pointer of one or more segments.
C10_PointerTraversal ==
    ptrResult # NotCalled => ptrResult = ReachedBy(ptrValue, SegmentsOf(ptrPath))

\* a three-segment pointer resolved through an object, an array and an object
C10_Witness ==
    /\ ptrPath = <<"a", ".", "0", ".", "a">>
    /\ ptrResult = Some(VInt(5))

(***************************************************************************)
(* SpecContext: two Contexts filled by insert, one merged into the other.  *)
(* A Context is its BTreeMap, a map from names to values.                  *)
(***************************************************************************)
ContextNames == {s_a, s_b, <<"c">>}
ContextValues == {VInt(1), VInt(2), VInt(3), VInt(4)}

\* Context::insert: BTreeMap::insert replaces the value of a present key
context_insert(data, key, val) ==
    [n \in DOMAIN data \cup {key} |-> IF n = key THEN val ELSE data[n]]

\* BTreeMap::append as extend calls it: the entries of source are moved into
\* self, replacing the values of the keys self already holds
extend_keep_existing(data, source_data) ==
    [n \in DOMAIN data \cup DOMAIN source_data |->
        IF n \in DOMAIN data THEN data[n] ELSE source_data[n]]

extend(data, source_data) ==
    [n \in DOMAIN data \cup DOMAIN source_data |->
        IF n \in DOMAIN source_data THEN source_data[n] ELSE data[n]]

InitContext ==
    /\ target = EmptyMap
    /\ source = EmptyMap
    /\ op = NoOp
    /\ profile = "debug"
    /\ IdleStack /\ IdleFrame /\ IdlePointer /\ IdleCall

InsertTarget(key, val) ==
    /\ target' = context_insert(target, key, val)
    /\ op' = [NoOp EXCEPT !.name = "insert_target"]
    /\ UNCHANGED <<input, output, source, stack, context, saved, profile, frame, ptrValue, ptrPath, ptrResult>>

InsertSource(key, val) ==
    /\ source' = context_insert(source, key, val)
    /\ op' = [NoOp EXCEPT !.name = "insert_source"]
    /\ UNCHANGED <<input, output, target, stack, context, saved, profile, frame, ptrValue, ptrPath, ptrResult>>

\* target.extend(source): source is moved in and dropped; the next source
\* starts from Context::new().  op keeps the two operands for the record.
Extend ==
    /\ target' = extend(target, source)
    /\ source' = EmptyMap
    /\ op' = [NoOp EXCEPT !.name = "extend",
                          !.value = [t |-> "operands", target |-> target, source |-> source]]
    /\ UNCHANGED <<input, output, stack, context, saved, profile, frame, ptrValue, ptrPath, ptrResult>>

NextContext ==
    \/ \E key \in ContextNames, val \in ContextValues : InsertTarget(key, val)
    \/ \E key \in ContextNames, val \in ContextValues : InsertSource(key, val)
    \/ Extend

SpecContext == InitContext /\ [][NextContext]_vars

\* C9: after target.extend(source) the target's keys are the union of both
\* key sets, every key of source maps to source's value, and every key only
\* in the old target keeps its old value.
C9_ExtendSourceWins ==
    op.name = "extend" =>
        LET old == op.value.target
            src == op.value.source
        IN  /\ DOMAIN target = DOMAIN old \cup DOMAIN src
            /\ \A n \in DOMAIN src : target[n] = src[n]
            /\ \A n \in DOMAIN old \ DOMAIN src : target[n] = old[n]

\* the scenario of test_extend: {a:1, b:2} extended by {b:3, c:4}
C9_Witness ==
    /\ op.name = "extend"
    /\ op.value.target = (s_a :> VInt(1)) @@ (s_b :> VInt(2))
    /\ op.value.source = (s_b :> VInt(3)) @@ (<<"c">> :> VInt(4))
    /\ target = (s_a :> VInt(1)) @@ (s_b :> VInt(3)) @@ (<<"c">> :> VInt(4))

(***************************************************************************)
(* Inputs of the frame specifications.                                     *)
(***************************************************************************)
ObjId(n) == VObj(s_id :> VInt(n))

\* {% for item in [{id:1},{id:2}] %}
LoopItems == ForLoop(None, s_item, <<>>, <<ObjId(1), ObjId(2)>>)
\* {% for k, item in {a: 1, b: {id:2}} %}
LoopPairs == ForLoop(Some(s_k), s_item, <<s_a, s_b>>, <<VInt(1), ObjId(2)>>)
\* {% for loop in [{id:1}, 2, 3] %}
LoopNamedLoop == ForLoop(None, s_loop, <<>>, <<ObjId(1), VInt(2), VInt(3)>>)
\* {% for loop, item in {a: {id:1}} %}
LoopKeyNamedLoop == ForLoop(Some(s_loop), s_item, <<s_a>>, <<ObjId(1)>>)
\* {% for item, item in {a: {id:1}, b: 2} %}
LoopSameNames == ForLoop(Some(s_item), s_item, <<s_a, s_b>>, <<ObjId(1), VInt(2)>>)
\* {% for item in [] %}
LoopEmpty == ForLoop(None, s_item, <<>>, <<>>)

\* the frame is inside a loop body, or is no loop frame at all
InBody(f) == f.for_loop.st = "some" => f.for_loop.v.current < for_loop_len(f.for_loop.v)

CanBind(f, key, limit) == key \in DOMAIN f.context \/ Cardinality(DOMAIN f.context) < limit

(***************************************************************************)
(* SpecFrame: one StackFrame, built by any constructor, then driven        *)
(* through insert, clear_context, the loop's advance and find_value.  A    *)
(* call that aborts ends the run.                                          *)
(***************************************************************************)
MaxFrameBindings == 2

FrameLoops == {LoopItems, LoopPairs, LoopNamedLoop, LoopKeyNamedLoop, LoopSameNames, LoopEmpty}
FrameArgs == {EmptyMap, s_y :> VInt(5), s_item :> ObjId(7)}
FrameNames == {s_x, s_k, s_item, s_loop}
FrameValues == {VInt(10), ObjId(7)}
FrameKeys ==
    { s_x, s_y, s_k, s_item, s_loop,
      Dotted(s_item, s_id), Dotted(s_item, s_x), Dotted(s_item, s_empty),
      Dotted(s_loop, s_index), Dotted(s_loop, s_index0), Dotted(s_loop, s_first),
      Dotted(s_loop, s_last), Dotted(s_loop, s_id), Dotted(s_loop, s_empty),
      Dotted(s_x, s_id) }

Built(name, f) == [NoOp EXCEPT !.name = name, !.value = [t |-> "frame", f |-> f]]

InitFrame ==
    /\ profile \in {"debug", "release"}
    /\ \/ \E kind \in FrameType : frame = new(kind, "frame") /\ op = Built("new", frame)
       \/ \E fl \in FrameLoops :
            frame = new_for_loop("for", fl) /\ op = Built("new_for_loop", frame)
       \/ \E args \in FrameArgs :
            frame = new_macro("macro", "macros", args) /\ op = Built("new_macro", frame)
       \/ frame = new_include("include") /\ op = Built("new_include", frame)
    /\ IdleStack /\ IdleContext /\ IdlePointer /\ IdleCall

Running == op.result # Panic

FrameInsert(key, value) ==
    /\ Running
    /\ CanBind(frame, key, MaxFrameBindings)
    /\ frame' = insert(frame, key, value)
    /\ op' = [NoOp EXCEPT !.name = "insert", !.key = key, !.value = value]
    /\ UNCHANGED <<input, output, profile, stack, context, saved, target, source, ptrValue, ptrPath, ptrResult>>

\* op keeps the frame as it was before the call
FrameClearContext ==
    /\ Running
    /\ frame' = clear_context(frame)
    /\ op' = Built("clear_context", frame)
    /\ UNCHANGED <<input, output, profile, stack, context, saved, target, source, ptrValue, ptrPath, ptrResult>>

\* the iteration boundary: the bindings are cleared and the loop advances
next_iteration(f) == [clear_context(f) EXCEPT !.for_loop.v = increment(@)]

FrameNextIteration ==
    /\ Running
    /\ frame.for_loop.st = "some"
    /\ InBody(frame)
    /\ frame' = next_iteration(frame)
    /\ op' = Built("next_iteration", frame)
    /\ UNCHANGED <<input, output, profile, stack, context, saved, target, source, ptrValue, ptrPath, ptrResult>>

FrameFindValue(key) ==
    /\ Running
    /\ op' = [NoOp EXCEPT !.name = "find_value", !.key = key, !.result = find_value(frame, key)]
    /\ UNCHANGED <<input, output, frame, profile, stack, context, saved, target, source,
                   ptrValue, ptrPath, ptrResult>>

NextFrame ==
    \/ \E key \in FrameNames, value \in FrameValues : FrameInsert(key, value)
    \/ FrameClearContext
    \/ FrameNextIteration
    \/ \E key \in FrameKeys : FrameFindValue(key)

SpecFrame == InitFrame /\ [][NextFrame]_vars

(***************************************************************************)
(* What a key denotes in one frame, stated on the segments of the key.     *)
(***************************************************************************)
FirstSegment(key) == SegmentsOf(key)[1]
RestSegments(key) == SubSeq(SegmentsOf(key), 2, Len(SegmentsOf(key)))

\* the local binding named by the first segment, traversed by the rest
LocalValue(f, key) ==
    LET segments == SegmentsOf(key)
    IN  IF segments[1] \in DOMAIN f.context
        THEN ReachedBy(f.context[segments[1]], SubSeq(segments, 2, Len(segments)))
        ELSE None

\* the frame carries a loop that stands at an element of its collection
AtElement(f) == f.for_loop.st = "some" /\ f.for_loop.v.current < Len(f.for_loop.v.values)

IsKeyName(f, key) == f.for_loop.v.key_name = Some(key)

\* C2: within one frame the local bindings are consulted before the for-loop
\* state: a key whose first segment names a local binding and whose remaining
\* path resolves against it yields that value, whatever the loop's names are.
C2_LocalBindingFirst ==
    (op.name = "find_value" /\ LocalValue(frame, op.key).st = "some")
        => op.result = LocalValue(frame, op.key)

\* a binding `item` shadows the loop's value-name `item`
C2_Witness ==
    /\ op.name = "find_value"
    /\ op.key = Dotted(s_item, s_id)
    /\ frame.for_loop = Some(LoopItems)
    /\ s_item \in DOMAIN frame.context
    /\ frame.context[s_item] = ObjId(7)
    /\ op.result = Some(VInt(7))

LoopBuiltins ==
    {Dotted(s_loop, s_index), Dotted(s_loop, s_index0), Dotted(s_loop, s_first),
     Dotted(s_loop, s_last)}

\* C3: in a ForLoop frame at position p of n elements, with no local binding
\* named loop, loop.index is p+1, loop.index0 is p, loop.first is (p = 0),
\* loop.last is (p = n-1); loop alone and loop.<other> are unresolved (unless
\* the key is the key-name) and never give the current element.
C3_LoopBuiltins ==
    (/\ op.name = "find_value"
     /\ AtElement(frame)
     /\ s_loop \notin DOMAIN frame.context
     /\ ~IsKeyName(frame, op.key))
        => LET p == frame.for_loop.v.current
               n == Len(frame.for_loop.v.values)
           IN  /\ op.key = Dotted(s_loop, s_index) => op.result = Some(VUInt(p + 1))
               /\ op.key = Dotted(s_loop, s_index0) => op.result = Some(VUInt(p))
               /\ op.key = Dotted(s_loop, s_first) => op.result = Some(VBool(p = 0))
               /\ op.key = Dotted(s_loop, s_last) => op.result = Some(VBool(p = n - 1))
               /\ (FirstSegment(op.key) = s_loop /\ op.key \notin LoopBuiltins)
                    => op.result = None

\* loop.index at position 1 is 2
C3_Witness ==
    /\ op.name = "find_value"
    /\ op.key = Dotted(s_loop, s_index)
    /\ frame.for_loop = Some(increment(LoopItems))
    /\ op.result = Some(VUInt(2))

\* the key is v.<path> with a path that is not empty
IsPathInto(key, v) == FirstSegment(key) = v /\ Len(key) > Len(v) + 1

\* C4 as stated: the key-name gives the current key, the value-name gives the
\* current element and v.<path> the traversal into it, for every value-name.
C4_Original ==
    (/\ op.name = "find_value"
     /\ AtElement(frame)
     /\ FirstSegment(op.key) \notin DOMAIN frame.context)
        => LET fl == frame.for_loop.v
               element == fl.values[fl.current + 1]
           IN  /\ IsKeyName(frame, op.key) => op.result = Some(VStr(fl.keys[fl.current + 1]))
               /\ op.key = fl.value_name => op.result = Some(element)
               /\ IsPathInto(op.key, fl.value_name)
                    => op.result = ReachedBy(element, RestSegments(op.key))

\* C4 (amended): the key-name gives the current key (before loop and the
\* value-name); a value-name that is neither the key-name nor the reserved
\* name loop gives the current element, and v.<path> the traversal into the
\* current element when v is not loop; at every position of the loop.
C4_LoopNames ==
    (/\ op.name = "find_value"
     /\ AtElement(frame)
     /\ FirstSegment(op.key) \notin DOMAIN frame.context)
        => LET fl == frame.for_loop.v
               element == fl.values[fl.current + 1]
           IN  /\ IsKeyName(frame, op.key) => op.result = Some(VStr(fl.keys[fl.current + 1]))
               /\ (op.key = fl.value_name /\ fl.value_name # s_loop /\ ~IsKeyName(frame, op.key))
                    => op.result = Some(element)
               /\ (IsPathInto(op.key, fl.value_name) /\ fl.value_name # s_loop)
                    => op.result = ReachedBy(element, RestSegments(op.key))

\* item.id is 2 once the loop over [{id:1},{id:2}] has advanced to position 1
C4_Witness ==
    /\ op.name = "find_value"
    /\ op.key = Dotted(s_item, s_id)
    /\ frame.for_loop = Some(increment(LoopItems))
    /\ frame.context = EmptyMap
    /\ op.result = Some(VInt(2))

\* C7: clear_context on a frame that carries a loop removes every local
\* binding and leaves the for-loop state and the kind as they were; after an
\* iteration boundary no key resolves from the frame's local bindings.
C7_ClearContext ==
    /\ (op.name = "clear_context" /\ op.value.f.for_loop.st = "some")
        => /\ DOMAIN frame.context = {}
           /\ frame.for_loop = op.value.f.for_loop
           /\ frame.kind = op.value.f.kind
    /\ op.name = "next_iteration"
        => /\ DOMAIN frame.context = {}
           /\ \A key \in FrameKeys : find_value_in_frame(frame, key) = None
           /\ frame.kind = op.value.f.kind
           /\ frame.for_loop.v.current = op.value.f.for_loop.v.current + 1
           /\ [frame.for_loop.v EXCEPT !.current = 0] = [op.value.f.for_loop.v EXCEPT !.current = 0]

\* a binding set during one iteration is gone in the next
C7_Witness ==
    /\ op.name = "next_iteration"
    /\ s_x \in DOMAIN op.value.f.context
    /\ frame.for_loop.v.current = 1
    /\ DOMAIN frame.context = {}

(***************************************************************************)
(* The call stack of the renderer and the global Context behind it: frames *)
(* are pushed on entering a loop, a macro call or an include and popped on *)
(* leaving; a key is looked up in the frames from the innermost outwards   *)
(* and then in the Context.                                                *)
(***************************************************************************)
lookup_context(data, key) ==
    LET dot == find_dot(key)
    IN  IF dot # -1
        THEN IF slice(key, 0, dot) \in DOMAIN data
             THEN get_by_pointer(data[slice(key, 0, dot)], slice(key, dot + 1, Len(key)))
             ELSE None
        ELSE IF key \in DOMAIN data THEN Some(data[key]) ELSE None

RECURSIVE lookup_from(_, _, _, _)
lookup_from(frames, i, data, key) ==
    IF i = 0 THEN lookup_context(data, key)
    ELSE LET found == find_value(frames[i], key)
         IN  IF found.st = "none" THEN lookup_from(frames, i - 1, data, key) ELSE found

lookup(frames, data, key) == lookup_from(frames, Len(frames), data, key)

push(frames, f) == Append(frames, f)
pop(frames) == SubSeq(frames, 1, Len(frames) - 1)
top(frames) == frames[Len(frames)]
with_top(frames, f) == [frames EXCEPT ![Len(frames)] = f]

(***************************************************************************)
(* Spec: a render.  The Origin frame is on the stack, the Context is       *)
(* read-only, and the renderer pushes, pops, sets, advances loops and      *)
(* looks keys up; it works on a loop frame only inside the loop's body,    *)
(* where the length is at least 1 and no arithmetic overflows, so the      *)
(* build profile makes no difference and is not drawn.  A looked-up value  *)
(* is written out before the render goes on.                              *)
(***************************************************************************)
MaxDepth == 3
MaxBindings == 2

StackLoops == {LoopPairs}
StackArgs == {s_y :> VInt(5), s_item :> ObjId(7)}
InsertNames == {s_x, s_item}
InsertValues == {VInt(10), ObjId(7)}
GlobalContext == (s_x :> VInt(99)) @@ (s_z :> ObjId(3))
LookupKeys ==
    { s_x, s_y, s_z, s_k, s_item,
      Dotted(s_item, s_id), Dotted(s_x, s_id), Dotted(s_z, s_id),
      Dotted(s_loop, s_index), Dotted(s_loop, s_last) }

ResolutionTable(frames, data) == [key \in LookupKeys |-> lookup(frames, data, key)]

Init ==
    /\ stack = <<new("Origin", "ORIGIN")>>
    /\ context = GlobalContext
    /\ saved = <<ResolutionTable(<<>>, GlobalContext)>>
    /\ op = NoOp
    /\ profile = "release"
    /\ IdleFrame /\ IdleContext /\ IdlePointer /\ IdleCall

\* the local bindings of all live frames, macro arguments included
RECURSIVE BindingCount(_)
BindingCount(frames) ==
    IF frames = <<>> THEN 0
    ELSE Cardinality(DOMAIN frames[1].context) + BindingCount(SubSeq(frames, 2, Len(frames)))

Rendering == Running /\ op.name # "lookup" /\ InBody(top(stack))

PushFrame(f, name, arg) ==
    /\ Rendering
    /\ Len(stack) < MaxDepth
    /\ stack' = push(stack, f)
    /\ saved' = Append(saved, ResolutionTable(stack, context))
    /\ op' = [NoOp EXCEPT !.name = name, !.value = arg]
    /\ UNCHANGED <<input, output, context, profile, frame, target, source, ptrValue, ptrPath, ptrResult>>

PushForLoop(fl) == PushFrame(new_for_loop("for", fl), "push_for_loop", Nil)

PushMacro(args) ==
    PushFrame(new_macro("macro", "macros", args), "push_macro", [t |-> "args", ctx |-> args])

PushInclude == PushFrame(new_include("include"), "push_include", Nil)

\* op keeps the resolution table recorded when the popped frame was pushed
Pop ==
    /\ Running
    /\ op.name # "lookup"
    /\ Len(stack) > 1
    /\ stack' = pop(stack)
    /\ saved' = SubSeq(saved, 1, Len(saved) - 1)
    /\ op' = [NoOp EXCEPT !.name = "pop",
                          !.value = [t |-> "table", table |-> saved[Len(saved)]]]
    /\ UNCHANGED <<input, output, context, profile, frame, target, source, ptrValue, ptrPath, ptrResult>>

\* {% set key = value %} in the current frame
Insert(key, value) ==
    /\ Rendering
    /\ key \in DOMAIN top(stack).context \/ BindingCount(stack) < MaxBindings
    /\ stack' = with_top(stack, insert(top(stack), key, value))
    /\ op' = [NoOp EXCEPT !.name = "insert", !.key = key, !.value = value]
    /\ UNCHANGED <<input, output, context, saved, profile, frame, target, source, ptrValue, ptrPath, ptrResult>>

NextIteration ==
    /\ Rendering
    /\ top(stack).for_loop.st = "some"
    /\ stack' = with_top(stack, next_iteration(top(stack)))
    /\ op' = [NoOp EXCEPT !.name = "next_iteration"]
    /\ UNCHANGED <<input, output, context, saved, profile, frame, target, source, ptrValue, ptrPath, ptrResult>>

Lookup(key) ==
    /\ Rendering
    /\ op' = [NoOp EXCEPT !.name = "lookup", !.key = key,
                          !.result = lookup(stack, context, key)]
    /\ UNCHANGED <<input, output, stack, context, saved, profile, frame, target, source,
                   ptrValue, ptrPath, ptrResult>>

\* the value found is written to the output and the render goes on
Emit ==
    /\ op.name = "lookup"
    /\ op.result # Panic
    /\ op' = NoOp
    /\ UNCHANGED <<input, output, stack, context, saved, profile, frame, target, source,
                   ptrValue, ptrPath, ptrResult>>

Next ==
    \/ \E fl \in StackLoops : PushForLoop(fl)
    \/ \E args \in StackArgs : PushMacro(args)
    \/ PushInclude
    \/ Pop
    \/ \E key \in InsertNames, value \in InsertValues : Insert(key, value)
    \/ NextIteration
    \/ \E key \in LookupKeys : Lookup(key)
    \/ Emit

Spec == Init /\ [][Next]_vars

(***************************************************************************)
(* What a key denotes in a frame that stands at an element of its loop (or *)
(* carries no loop), and in the Context.                                   *)
(***************************************************************************)
LoopValue(f, key) ==
    LET fl == f.for_loop.v
        p == fl.current
        element == fl.values[p + 1]
    IN  IF IsKeyName(f, key) THEN Some(VStr(fl.keys[p + 1]))
        ELSE IF key = Dotted(s_loop, s_index) THEN Some(VUInt(p + 1))
        ELSE IF key = Dotted(s_loop, s_index0) THEN Some(VUInt(p))
        ELSE IF key = Dotted(s_loop, s_first) THEN Some(VBool(p = 0))
        ELSE IF key = Dotted(s_loop, s_last) THEN Some(VBool(p + 1 = Len(fl.values)))
        ELSE IF FirstSegment(key) = s_loop THEN None
        ELSE IF key = fl.value_name THEN Some(element)
        ELSE IF IsPathInto(key, fl.value_name) THEN ReachedBy(element, RestSegments(key))
        ELSE None

FrameDenotes(f, key) ==
    LET local == LocalValue(f, key)
    IN  IF local.st = "some" THEN local
        ELSE IF f.for_loop.st = "some" THEN LoopValue(f, key)
        ELSE None

ContextDenotes(data, key) ==
    IF FirstSegment(key) \in DOMAIN data
    THEN ReachedBy(data[FirstSegment(key)], RestSegments(key))
    ELSE None

ResolvingFrames(frames, key) ==
    {i \in 1..Len(frames) : FrameDenotes(frames[i], key).st = "some"}

Innermost(S) == CHOOSE i \in S : \A j \in S : j <= i

\* C1: a lookup gives the value of the innermost frame that resolves the key;
\* if no frame resolves it, the Context binding of the first segment traversed
\* by the remaining path; otherwise undefined.  After a pop every key resolves
\* as it did when the popped frame was pushed.
C1_ResolutionOrder ==
    /\ op.name = "lookup"
        => LET resolving == ResolvingFrames(stack, op.key)
           IN  op.result =
                   IF resolving # {}
                   THEN FrameDenotes(stack[Innermost(resolving)], op.key)
                   ELSE ContextDenotes(context, op.key)
    /\ op.name = "pop"
        => \A key \in LookupKeys : lookup(stack, context, key) = op.value.table[key]

\* x is bound in the Origin frame, in the frame above it and in the Context;
\* the middle frame's value is found from the frame on top of it
C1_Witness ==
    /\ op.name = "lookup"
    /\ op.key = s_x
    /\ Len(stack) = 3
    /\ s_x \in DOMAIN stack[1].context
    /\ s_x \in DOMAIN stack[2].context
    /\ s_x \notin DOMAIN stack[3].context
    /\ stack[1].context[s_x] # stack[2].context[s_x]
    /\ s_x \in DOMAIN context
    /\ op.result = Some(stack[2].context[s_x])

\* C5: with an outer frame binding x -> 10 and a Macro frame holding only
\* y -> 5 on top of it, looking up x gives 10.
C5_MacroFallsBack ==
    (/\ op.name = "lookup"
     /\ op.key = s_x
     /\ Len(stack) >= 2
     /\ top(stack).kind = "Macro"
     /\ top(stack).context = (s_y :> VInt(5))
     /\ s_x \in DOMAIN stack[Len(stack) - 1].context
     /\ stack[Len(stack) - 1].context[s_x] = VInt(10))
        => op.result = Some(VInt(10))

C5_Witness ==
    /\ op.name = "lookup"
    /\ op.key = s_x
    /\ Len(stack) = 2
    /\ stack[1].kind = "Origin"
    /\ stack[1].context = (s_x :> VInt(10))
    /\ stack[2].kind = "Macro"
    /\ stack[2].context = (s_y :> VInt(5))
    /\ op.result = Some(VInt(10))

\* C6: right after new_macro(args) the frame's bindings are exactly args: it
\* resolves a key iff the key's first segment is a key of args and the rest of
\* the path resolves; nothing of the caller's frames is in it and it carries
\* no for-loop state.
C6_MacroBindings ==
    op.name = "push_macro"
        => LET args == op.value.ctx
               f == top(stack)
           IN  /\ f.kind = "Macro"
               /\ f.context = args
               /\ f.for_loop = None
               /\ \A key \in LookupKeys :
                    find_value(f, key).st = "some"
                        <=> /\ FirstSegment(key) \in DOMAIN args
                            /\ ReachedBy(args[FirstSegment(key)], RestSegments(key)).st = "some"

\* the caller binds x; the macro frame built with y -> 5 does not resolve x
C6_Witness ==
    /\ op.name = "push_macro"
    /\ op.value.ctx = (s_y :> VInt(5))
    /\ s_x \in DOMAIN stack[Len(stack) - 1].context
    /\ find_value(top(stack), s_x) = None
    /\ find_value(top(stack), s_y) = Some(VInt(5))

\* C8: insert changes only the bindings of the topmost frame: the frames
\* below and the Context stay, the frame's other bindings, kind and for-loop
\* state stay, and find_value of the key gives the inserted value; a binding
\* keeps resolving to its value in every later state and changes only by an
\* insert of its name, an iteration boundary or the frame's exit.
C8_InsertTopOnly ==
    [][/\ op'.name = "insert"
          => LET n == Len(stack)
                 old == stack[n]
                 f == stack'[n]
             IN  /\ Len(stack') = n
                 /\ \A i \in 1..(n - 1) : stack'[i] = stack[i]
                 /\ context' = context
                 /\ DOMAIN f.context = DOMAIN old.context \cup {op'.key}
                 /\ \A b \in DOMAIN old.context \ {op'.key} : f.context[b] = old.context[b]
                 /\ [f EXCEPT !.context = EmptyMap] = [old EXCEPT !.context = EmptyMap]
                 /\ find_value(f, op'.key) = Some(op'.value)
       /\ \A i \in 1..Len(stack') : \A b \in DOMAIN stack'[i].context :
            find_value(stack'[i], b) = Some(stack'[i].context[b])
       /\ \A i \in 1..Len(stack) : \A b \in DOMAIN stack[i].context :
            \/ /\ i <= Len(stack')
               /\ b \in DOMAIN stack'[i].context
               /\ stack'[i].context[b] = stack[i].context[b]
            \/ i = Len(stack) /\ op'.name \in {"pop", "next_iteration"}
            \/ i = Len(stack) /\ op'.name = "insert" /\ op'.key = b
      ]_vars

\* a binding set in a frame above another frame that binds the same name to
\* another value
C8_Witness ==
    /\ op.name = "insert"
    /\ Len(stack) >= 2
    /\ op.key \in DOMAIN stack[Len(stack) - 1].context
    /\ stack[Len(stack) - 1].context[op.key] # op.value
    /\ top(stack).context[op.key] = op.value

(***************************************************************************)
(* Result<T> of the fallible operations, with the kind of the error.       *)
(***************************************************************************)
Ok(x) == [st |-> "ok", v |-> x]
Err(kind) == [st |-> "err", e |-> kind]

\* the variables the specifications below never drive
IdleRenderer == IdleStack /\ IdleFrame /\ IdleContext /\ IdlePointer /\ op = NoOp
rendererVars == <<stack, context, saved, op, frame, target, source,
                  ptrValue, ptrPath, ptrResult>>

(***************************************************************************)
(* f64: a finite float is the exact fraction n/d with d > 0 in lowest      *)
(* terms; d = 0 marks the non-finite ones (NaN 0/0, +inf 1/0, -inf -1/0).  *)
(***************************************************************************)
F64(n, d) == [n |-> n, d |-> d]
NaN == F64(0, 0)
Infinity == F64(1, 0)
NegInfinity == F64(-1, 0)
VFloat(f) == [t |-> "float", f |-> f]

is_finite(f) == f.d # 0
is_nan(f) == f.d = 0 /\ f.n = 0

\* f64 `<` (false whenever an operand is NaN)
f64_lt(x, y) ==
    IF is_nan(x) \/ is_nan(y) THEN FALSE
    ELSE IF is_finite(x) /\ is_finite(y) THEN x.n * y.d < y.n * x.d
    ELSE IF is_finite(x) THEN y.n > 0
    ELSE IF is_finite(y) THEN x.n < 0
    ELSE x.n < y.n

\* f64 `==` (NaN equals nothing, itself included)
f64_eq(x, y) == ~is_nan(x) /\ ~is_nan(y) /\ x = y

(***************************************************************************)
(* The sort engine (src/sort_utils.rs).  The derived keys are OrderedF64,  *)
(* i64, bool, String and ArrayLen.                                         *)
(***************************************************************************)
ArrayLen(n) == [t |-> "len", l |-> n]

\* the byte of a character, for the lexical order of String keys
char_code(c) == CASE c = "a" -> 97 [] c = "b" -> 98 [] c = "c" -> 99 [] OTHER -> 0

\* <str as Ord>::lt: lexicographic by bytes, a proper prefix first
RECURSIVE str_lt(_, _)
str_lt(s1, s2) ==
    IF s2 = <<>> THEN FALSE
    ELSE IF s1 = <<>> THEN TRUE
    ELSE IF char_code(Head(s1)) # char_code(Head(s2))
         THEN char_code(Head(s1)) < char_code(Head(s2))
    ELSE str_lt(Tail(s1), Tail(s2))

\* the typed accessors of the Value enum: the underlying primitive or a type mismatch
try_integer(val) == IF val.t = "int" THEN Ok(VInt(val.n)) ELSE Err("TypeMismatch")
try_float(val) == IF val.t = "float" THEN Ok(val.f) ELSE Err("TypeMismatch")
try_bool(val) == IF val.t = "bool" THEN Ok(VBool(val.b)) ELSE Err("TypeMismatch")
try_str(val) == IF val.t = "str" THEN Ok(VStr(val.s)) ELSE Err("TypeMismatch")
try_array(val) == IF val.t = "arr" THEN Ok(val.a) ELSE Err("TypeMismatch")

\* OrderedF64::new accepting every float
OrderedF64_new_unchecked(n) == Ok(VFloat(n))

OrderedF64_new(n) == IF is_finite(n) THEN Ok(VFloat(n)) ELSE Err("NotSortable")

\* GetSortKey::get_sort_key of the key type K of the strategy
get_sort_key(K, val) ==
    CASE K = "i64" -> try_integer(val)
      [] K = "OrderedF64" ->
            LET n == try_float(val) IN IF n.st = "err" THEN n ELSE OrderedF64_new(n.v)
      [] K = "bool" -> try_bool(val)
      [] K = "String" -> try_str(val)
      [] K = "ArrayLen" ->
            LET arr == try_array(val) IN IF arr.st = "err" THEN arr ELSE Ok(ArrayLen(Len(arr.v)))

\* <K as Ord>::lt on two keys of the same type K
key_lt(K, k1, k2) ==
    CASE K = "i64" -> k1.n < k2.n
      [] K = "OrderedF64" -> f64_lt(k1.f, k2.f)
      [] K = "bool" -> ~k1.b /\ k2.b
      [] K = "String" -> str_lt(k1.s, k2.s)
      [] K = "ArrayLen" -> k1.l < k2.l

\* SortPairs<K>::default()
SortPairs(K) == [K |-> K, pairs |-> <<>>]

\* a strategy chosen for Object keys too (as if they were arrays)
get_sort_strategy_object_as_array(ty) ==
    CASE ty.t = "bool" -> Ok(SortPairs("bool"))
      [] ty.t = "int" -> Ok(SortPairs("i64"))
      [] ty.t = "float" -> Ok(SortPairs("OrderedF64"))
      [] ty.t = "str" -> Ok(SortPairs("String"))
      [] ty.t = "arr" -> Ok(SortPairs("ArrayLen"))
      [] ty.t = "obj" -> Ok(SortPairs("ArrayLen"))

get_sort_strategy_for_type(ty) ==
    CASE ty.t = "bool" -> Ok(SortPairs("bool"))
      [] ty.t = "int" -> Ok(SortPairs("i64"))
      [] ty.t = "float" -> Ok(SortPairs("OrderedF64"))
      [] ty.t = "str" -> Ok(SortPairs("String"))
      [] ty.t = "arr" -> Ok(SortPairs("ArrayLen"))
      [] ty.t = "obj" -> Err("NotSortable")

\* try_add_pair keeping the strategy unchanged when the key is of another type
try_add_pair_skip_mismatch(strategy, val, key) ==
    LET k == get_sort_key(strategy.K, key)
    IN  IF k.st = "err" THEN Ok(strategy)
        ELSE Ok([strategy EXCEPT !.pairs = Append(@, [val |-> val, key |-> k.v])])

try_add_pair(strategy, val, key) ==
    LET k == get_sort_key(strategy.K, key)
    IN  IF k.st = "err" THEN k
        ELSE Ok([strategy EXCEPT !.pairs = Append(@, [val |-> val, key |-> k.v])])

\* the place of a pair among sorted pairs: behind every pair whose key is not greater
RECURSIVE insert_by_key(_, _, _)
insert_by_key(K, sorted, pair) ==
    IF sorted = <<>> THEN <<pair>>
    ELSE IF key_lt(K, pair.key, Head(sorted).key) THEN <<pair>> \o sorted
    ELSE <<Head(sorted)>> \o insert_by_key(K, Tail(sorted), pair)

\* slice::sort_by_key, a stable sort
RECURSIVE sort_by_key(_, _)
sort_by_key(K, pairs) ==
    IF pairs = <<>> THEN <<>>
    ELSE insert_by_key(K, sort_by_key(K, SubSeq(pairs, 1, Len(pairs) - 1)), pairs[Len(pairs)])

\* a sort that takes the pairs from the last to the first, so that pairs of equal
\* key come out in reverse
sort_pairs_reversed_ties(strategy) ==
    LET p == strategy.pairs
        sorted == sort_by_key(strategy.K, [i \in 1..Len(p) |-> p[Len(p) + 1 - i]])
    IN  [i \in 1..Len(sorted) |-> sorted[i].val]

\* SortPairs<K>::sort
sort_pairs(strategy) ==
    LET sorted == sort_by_key(strategy.K, strategy.pairs)
    IN  [i \in 1..Len(sorted) |-> sorted[i].val]

(***************************************************************************)
(* SpecSort: the engine driven over one column.  The collection is an      *)
(* array of objects {a: key, b: position}; the key of an element is its    *)
(* field `a`, the field `b` tells elements of equal key apart.  The first  *)
(* key selects the strategy, every element is then added with its key, and *)
(* the pairs are sorted; a sorted result is sorted once more.              *)
(***************************************************************************)
MaxColumn == 3

s_ab == <<"a", "b">>

SortKeys ==
    {VInt(1), VInt(2), VFloat(F64(1, 2)), VFloat(F64(5, 2)), VFloat(NaN), VFloat(NegInfinity),
     VStr(s_a), VStr(s_ab), VBool(FALSE), VBool(TRUE), VArr(<<>>), VArr(<<VInt(1)>>),
     VObj(EmptyMap)}

SortElement(key, position) ==
    VObj([f \in {s_a, s_b} |-> IF f = s_a THEN key ELSE VInt(position)])

SortColumns == UNION {[1..n -> SortKeys] : n \in 1..MaxColumn}

SortArrays == {VArr([i \in DOMAIN column |-> SortElement(column[i], i)]) : column \in SortColumns}

\* the key of an element: the attribute resolved on it
sort_key_of(val) == get_by_pointer(val, s_a).v

SortIdle(previous) ==
    [st |-> "idle", strategy |-> Nil, next |-> 0, result |-> Nil, previous |-> previous]

InitSort ==
    /\ input \in SortArrays
    /\ output = SortIdle(Nil)
    /\ profile = "release"
    /\ IdleRenderer

SelectStrategy ==
    /\ output.st = "idle"
    /\ LET strategy == get_sort_strategy_for_type(sort_key_of(input.a[1]))
       IN  output' = IF strategy.st = "err"
                     THEN [output EXCEPT !.st = "err", !.result = strategy]
                     ELSE [output EXCEPT !.st = "adding", !.strategy = strategy.v]
    /\ UNCHANGED <<input, profile, rendererVars>>

AddPair ==
    /\ output.st = "adding"
    /\ output.next < Len(input.a)
    /\ LET val == input.a[output.next + 1]
           added == try_add_pair(output.strategy, val, sort_key_of(val))
       IN  output' = IF added.st = "err"
                     THEN [output EXCEPT !.st = "err", !.result = added]
                     ELSE [output EXCEPT !.strategy = added.v, !.next = @ + 1]
    /\ UNCHANGED <<input, profile, rendererVars>>

SortAdded ==
    /\ output.st = "adding"
    /\ output.next = Len(input.a)
    /\ output' = [output EXCEPT !.st = "ok", !.result = Ok(VArr(sort_pairs(output.strategy)))]
    /\ UNCHANGED <<input, profile, rendererVars>>

SortAgain ==
    /\ output.st = "ok"
    /\ output.previous = Nil
    /\ input' = output.result.v
    /\ output' = SortIdle(output.result.v)
    /\ UNCHANGED <<profile, rendererVars>>

NextSort ==
    \/ SelectStrategy
    \/ AddPair
    \/ SortAdded
    \/ SortAgain

SpecSort == InitSort /\ [][NextSort]_vars

(***************************************************************************)
(* What the sort claims speak of, stated on the collection itself.         *)
(***************************************************************************)
KeyAt(arr, i) == arr.a[i].o[s_a]

\* the keys are of one type, the type the first key selects, and all finite
Conforming(arr) ==
    /\ arr.a[1].o[s_a].t \in {"int", "float", "str", "bool", "arr"}
    /\ \A i \in 1..Len(arr.a) :
          /\ KeyAt(arr, i).t = KeyAt(arr, 1).t
          /\ KeyAt(arr, i).t = "float" => KeyAt(arr, i).f.d # 0

\* k1 comes strictly before k2 in the order of their common type
Precedes(k1, k2) ==
    CASE k1.t = "int" -> k1.n < k2.n
      [] k1.t = "float" -> k1.f.n * k2.f.d < k2.f.n * k1.f.d
      [] k1.t = "bool" -> k1.b = FALSE /\ k2.b = TRUE
      [] k1.t = "arr" -> Len(k1.a) < Len(k2.a)
      [] k1.t = "str" ->
            \E i \in 1..(Len(k2.s)) :
                /\ \A j \in 1..(i - 1) : j <= Len(k1.s) /\ k1.s[j] = k2.s[j]
                /\ \/ i > Len(k1.s)
                   \/ (k1.s[i] = "a" /\ k2.s[i] = "b")

PositionIn(arr, val) == CHOOSE i \in 1..Len(arr.a) : arr.a[i] = val

SortedFrom(arr, out) ==
    /\ Len(out.a) = Len(arr.a)
    /\ {out.a[i] : i \in 1..Len(out.a)} = {arr.a[i] : i \in 1..Len(arr.a)}
    /\ \A i, j \in 1..Len(out.a) :
          i < j => /\ ~Precedes(out.a[j].o[s_a], out.a[i].o[s_a])
                   /\ (~Precedes(out.a[i].o[s_a], out.a[j].o[s_a])
                          => PositionIn(arr, out.a[i]) < PositionIn(arr, out.a[j]))

\* C11: when every key conforms to the strategy the first key selects, the engine
\* returns a permutation of the collection in non-decreasing order of the keys,
\* elements of equal key in their original order, and the collection handed in
\* is the same before and after the sort.
C11_StableSort ==
    [][/\ (Conforming(input) /\ output.st = "adding" /\ output.next = Len(input.a))
              => /\ output'.st = "ok"
                 /\ input' = input
                 /\ SortedFrom(input, output'.result.v)
       /\ (Conforming(input) /\ output.st \in {"idle", "adding"}) => output'.st # "err"]_vars

C11_Witness ==
    /\ output.st = "ok"
    /\ output.previous = Nil
    /\ Len(input.a) = 3
    /\ KeyAt(input, 1) = VInt(2) /\ KeyAt(input, 2) = VInt(1) /\ KeyAt(input, 3) = VInt(1)
    /\ output.result.v = VArr(<<input.a[2], input.a[3], input.a[1]>>)

\* C12: sort is idempotent: sorting the result of a successful sort succeeds and
\* gives the same sequence again.
C12_Idempotent ==
    output.previous # Nil =>
        /\ output.st # "err"
        /\ output.st = "ok" => output.result.v = output.previous

C12_Witness ==
    /\ output.previous # Nil
    /\ output.st = "ok"
    /\ Len(input.a) = 3
    /\ KeyAt(input, 1) = VInt(1) /\ KeyAt(input, 2) = VInt(1) /\ KeyAt(input, 3) = VInt(2)
    /\ input.a[1].o[s_b] = VInt(2)

HasObjectKey(arr) == \E i \in 1..Len(arr.a) : KeyAt(arr, i).t = "obj"
HasNonFiniteKey(arr) ==
    \E i \in 1..Len(arr.a) : KeyAt(arr, i).t = "float" /\ KeyAt(arr, i).f.d = 0

\* the key whose derivation failed (the strategy was selected, the sort is in error)
FailedKey == KeyAt(input, output.next + 1)
FailedAdding == output.st = "err" /\ output.strategy # Nil

\* no ordered output: the result is an error and the pairs added so far are the
\* leading elements in their original order
NoOrderedOutput ==
    /\ output.result.st = "err"
    /\ output.strategy # Nil =>
          /\ Len(output.strategy.pairs) = output.next
          /\ \A i \in 1..output.next : output.strategy.pairs[i].val = input.a[i]

StrategyOf(key) ==
    CASE key.t = "int" -> "i64" [] key.t = "float" -> "OrderedF64" [] key.t = "bool" -> "bool"
      [] key.t = "str" -> "String" [] key.t = "arr" -> "ArrayLen" [] OTHER -> "none"

\* C15: the strategy is the one of the type of the first key; a later key of
\* another type makes the whole sort fail with a type-mismatch error: the key is
\* not coerced and no partial result is returned.
C15_TypeOfFirstKey ==
    /\ output.strategy # Nil => output.strategy.K = StrategyOf(KeyAt(input, 1))
    /\ (\E i \in 1..Len(input.a) : KeyAt(input, i).t # KeyAt(input, 1).t) => output.st # "ok"
    /\ (FailedAdding /\ FailedKey.t # KeyAt(input, 1).t) =>
          /\ output.result.e = "TypeMismatch"
          /\ NoOrderedOutput
    /\ output.st = "ok" => Len(output.result.v.a) = Len(input.a)

C15_Witness ==
    /\ Len(input.a) = 3
    /\ KeyAt(input, 1) = VInt(2)
    /\ KeyAt(input, 2) = VInt(1)
    /\ KeyAt(input, 3) = VArr(<<>>)
    /\ FailedAdding
    /\ output.strategy.K = "i64"
    /\ output.next = 2
    /\ output.result.e = "TypeMismatch"

IsNumericKey(key) == key.t = "int" \/ (key.t = "float" /\ key.f.d # 0)

\* the numeric value of an Integer or finite Float key, as a fraction
NumericValue(key) == IF key.t = "int" THEN F64(key.n, 1) ELSE key.f

MixedNumericColumn(arr) ==
    /\ \A i \in 1..Len(arr.a) : IsNumericKey(KeyAt(arr, i))
    /\ \E i \in 1..Len(arr.a) : KeyAt(arr, i).t = "int"
    /\ \E i \in 1..Len(arr.a) : KeyAt(arr, i).t = "float"

\* C16: a column mixing Integer and Float keys, in either order of first
\* appearance, sorts successfully in ascending numeric order.
C16_MixedNumeric ==
    MixedNumericColumn(input) =>
        /\ output.st # "err"
        /\ output.st = "ok" =>
              \A i, j \in 1..Len(output.result.v.a) :
                  i < j => ~f64_lt(NumericValue(KeyAt(output.result.v, j)),
                                   NumericValue(KeyAt(output.result.v, i)))

(***************************************************************************)
(* Number (src/value.rs).  The integers are IntBits wide instead of 64, so *)
(* that the ends of the signed and unsigned ranges are among the operands. *)
(***************************************************************************)
IntBits == 3

I64_MIN == -(2 ^ (IntBits - 1))
I64_MAX == 2 ^ (IntBits - 1) - 1
U64_MAX == 2 ^ IntBits - 1

NumberInt(x) == [t |-> "Int", i |-> x]
NumberUInt(x) == [t |-> "UInt", u |-> x]
NumberFloat(x) == [t |-> "Float", f |-> x]

\* u64 as i64: the same bits read as a signed integer
u64_as_i64(x) == IF x > I64_MAX THEN x - 2 ^ IntBits ELSE x

\* i64 as f64, u64 as f64
int_as_f64(x) == F64(x, 1)

Abs(x) == IF x < 0 THEN -x ELSE x

RECURSIVE Gcd(_, _)
Gcd(x, y) == IF y = 0 THEN x ELSE Gcd(y, x % y)

\* the float of the fraction n/d, d # 0
Fraction(n, d) ==
    LET g == Gcd(Abs(n), Abs(d))
    IN  IF d < 0 THEN F64((-n) \div g, (-d) \div g) ELSE F64(n \div g, d \div g)

\* the quotient rounded toward zero
trunc_div(x, y) ==
    IF (x < 0) = (y < 0) THEN Abs(x) \div Abs(y) ELSE -(Abs(x) \div Abs(y))

\* i64 `/`: aborts on a zero divisor and on i64::MIN / -1
i64_div(x, y) ==
    IF y = 0 \/ (x = I64_MIN /\ y = -1) THEN Panic ELSE NumberInt(trunc_div(x, y))

\* i64 `%`: aborts on a zero divisor and on i64::MIN % -1
i64_rem(x, y) ==
    IF y = 0 \/ (x = I64_MIN /\ y = -1) THEN Panic ELSE NumberInt(x - y * trunc_div(x, y))

\* u64 `/` and `%`: abort on a zero divisor
u64_div(x, y) == IF y = 0 THEN Panic ELSE NumberUInt(x \div y)
u64_rem(x, y) == IF y = 0 THEN Panic ELSE NumberUInt(x % y)

\* f64 `/`
f64_div(x, y) ==
    IF is_nan(x) \/ is_nan(y) THEN NaN
    ELSE IF ~is_finite(x) THEN (IF ~is_finite(y) THEN NaN
                                ELSE IF (x.n < 0) = (y.n < 0) THEN Infinity ELSE NegInfinity)
    ELSE IF ~is_finite(y) THEN F64(0, 1)
    ELSE IF y.n = 0 THEN (IF x.n = 0 THEN NaN ELSE IF x.n > 0 THEN Infinity ELSE NegInfinity)
    ELSE Fraction(x.n * y.d, x.d * y.n)

\* f64 `%`: the remainder of the division rounded toward zero
f64_rem(x, y) ==
    IF is_nan(x) \/ is_nan(y) \/ ~is_finite(x) THEN NaN
    ELSE IF ~is_finite(y) THEN x
    ELSE IF y.n = 0 THEN NaN
    ELSE LET q == trunc_div(x.n * y.d, x.d * y.n)
         IN  Fraction(x.n * y.d - q * y.n * x.d, x.d * y.d)

\* arithmetic_operation!(div, /)
div(self, other) ==
    CASE self.t = "Int" /\ other.t = "Int" -> i64_div(self.i, other.i)
      [] self.t = "Int" /\ other.t = "UInt" -> i64_div(self.i, u64_as_i64(other.u))
      [] self.t = "Int" /\ other.t = "Float" -> NumberFloat(f64_div(int_as_f64(self.i), other.f))
      [] self.t = "UInt" /\ other.t = "Int" -> i64_div(u64_as_i64(self.u), other.i)
      [] self.t = "UInt" /\ other.t = "UInt" -> u64_div(self.u, other.u)
      [] self.t = "UInt" /\ other.t = "Float" -> NumberFloat(f64_div(int_as_f64(self.u), other.f))
      [] self.t = "Float" /\ other.t = "Int" -> NumberFloat(f64_div(self.f, int_as_f64(other.i)))
      [] self.t = "Float" /\ other.t = "UInt" -> NumberFloat(f64_div(self.f, int_as_f64(other.u)))
      [] self.t = "Float" /\ other.t = "Float" -> NumberFloat(f64_div(self.f, other.f))

\* arithmetic_operation!(modulo, %)
modulo(self, other) ==
    CASE self.t = "Int" /\ other.t = "Int" -> i64_rem(self.i, other.i)
      [] self.t = "Int" /\ other.t = "UInt" -> i64_rem(self.i, u64_as_i64(other.u))
      [] self.t = "Int" /\ other.t = "Float" -> NumberFloat(f64_rem(int_as_f64(self.i), other.f))
      [] self.t = "UInt" /\ other.t = "Int" -> i64_rem(u64_as_i64(self.u), other.i)
      [] self.t = "UInt" /\ other.t = "UInt" -> u64_rem(self.u, other.u)
      [] self.t = "UInt" /\ other.t = "Float" -> NumberFloat(f64_rem(int_as_f64(self.u), other.f))
      [] self.t = "Float" /\ other.t = "Int" -> NumberFloat(f64_rem(self.f, int_as_f64(other.i)))
      [] self.t = "Float" /\ other.t = "UInt" -> NumberFloat(f64_rem(self.f, int_as_f64(other.u)))
      [] self.t = "Float" /\ other.t = "Float" -> NumberFloat(f64_rem(self.f, other.f))

\* the match on rhs that guards both checked operations
is_zero_divisor(rhs) ==
    \/ rhs.t = "Int" /\ rhs.i = 0
    \/ rhs.t = "UInt" /\ rhs.u = 0
    \/ rhs.t = "Float" /\ f64_eq(rhs.f, F64(0, 1))

\* Some(x) around a call that may abort
some_of(x) == IF x = Panic THEN Panic ELSE Some(x)

\* checked_div guarding the Int divisor only
checked_div_int_guard_only(self, rhs) ==
    IF rhs.t = "Int" /\ rhs.i = 0 THEN None ELSE some_of(div(self, rhs))

checked_div(self, rhs) ==
    IF is_zero_divisor(rhs) THEN None ELSE some_of(div(self, rhs))

checked_modulo(self, rhs) ==
    IF is_zero_divisor(rhs) THEN None ELSE some_of(modulo(self, rhs))

(***************************************************************************)
(* SpecNumber: checked_div and checked_modulo applied to every pair of     *)
(* operands.                                                               *)
(***************************************************************************)
Floats == {F64(0, 1), F64(1, 2), F64(-5, 2), F64(2, 1), NaN, Infinity}

Numbers ==
    {NumberInt(x) : x \in I64_MIN..I64_MAX} \cup {NumberUInt(x) : x \in 0..U64_MAX}
        \cup {NumberFloat(x) : x \in Floats}

Called(name, result) == [st |-> "called", name |-> name, result |-> result]

InitNumber ==
    /\ input \in [self : Numbers, rhs : Numbers]
    /\ output = NotCalled
    /\ profile \in {"debug", "release"}
    /\ IdleRenderer

CheckedDiv ==
    /\ output' = Called("checked_div", checked_div(input.self, input.rhs))
    /\ UNCHANGED <<input, profile, rendererVars>>

CheckedModulo ==
    /\ output' = Called("checked_modulo", checked_modulo(input.self, input.rhs))
    /\ UNCHANGED <<input, profile, rendererVars>>

NextNumber ==
    \/ CheckedDiv
    \/ CheckedModulo

SpecNumber == InitNumber /\ [][NextNumber]_vars

\* the divisor denotes the number zero
IsNumericZero(rhs) ==
    CASE rhs.t = "Int" -> rhs.i = 0
      [] rhs.t = "UInt" -> rhs.u = 0
      [] rhs.t = "Float" -> rhs.f.d # 0 /\ rhs.f.n = 0

PlainOutcome(name) ==
    IF name = "checked_div" THEN div(input.self, input.rhs) ELSE modulo(input.self, input.rhs)

\* C17: checked_div and checked_modulo return no-result exactly when the
\* divisor is a numeric zero (Int 0, UInt 0, Float 0.0), whatever the dividend;
\* for every other divisor their outcome is the outcome of the plain div /
\* modulo (its result returned as Some, or its abort).
C17_CheckedZero ==
    output.st = "called" =>
        /\ (output.result = None) <=> IsNumericZero(input.rhs)
        /\ ~IsNumericZero(input.rhs) =>
              LET plain == PlainOutcome(output.name)
              IN  IF plain = Panic THEN output.result = Panic
                  ELSE output.result = Some(plain)

C17_Witness ==
    /\ output.st = "called"
    /\ output.name = "checked_div"
    /\ input.self = NumberInt(I64_MIN)
    /\ input.rhs = NumberUInt(0)
    /\ output.result = None

(***************************************************************************)
(* Value::eq (src/value.rs).  Besides the primitive implementors, which    *)
(* answer one accessor each, serde_json::Value answers all of them: a JSON *)
(* number is a non-negative integer, a negative integer or a finite float. *)
(***************************************************************************)
JsonPosInt(x) == [t |-> "json", k |-> "PosInt", ju |-> x]
JsonNegInt(x) == [t |-> "json", k |-> "NegInt", ji |-> x]
JsonFloat(x) == [t |-> "json", k |-> "Float", jf |-> x]
JsonString(x) == [t |-> "json", k |-> "String", js |-> x]
JsonBool(x) == [t |-> "json", k |-> "Bool", jb |-> x]

as_str(v) ==
    IF v.t = "str" THEN Some(v.s)
    ELSE IF v.t = "json" /\ v.k = "String" THEN Some(v.js)
    ELSE None

as_int(v) ==
    IF v.t = "int" THEN Some(v.n)
    ELSE IF v.t = "json" /\ v.k = "NegInt" THEN Some(v.ji)
    ELSE IF v.t = "json" /\ v.k = "PosInt" /\ v.ju <= I64_MAX THEN Some(v.ju)
    ELSE None

as_uint(v) ==
    IF v.t = "uint" THEN Some(v.u)
    ELSE IF v.t = "json" /\ v.k = "PosInt" THEN Some(v.ju)
    ELSE None

as_float(v) ==
    IF v.t = "float" THEN Some(v.f)
    ELSE IF v.t = "json" /\ v.k = "Float" THEN Some(v.jf)
    ELSE IF v.t = "json" /\ v.k = "PosInt" THEN Some(int_as_f64(v.ju))
    ELSE IF v.t = "json" /\ v.k = "NegInt" THEN Some(int_as_f64(v.ji))
    ELSE None

as_bool(v) ==
    IF v.t = "bool" THEN Some(v.b)
    ELSE IF v.t = "json" /\ v.k = "Bool" THEN Some(v.jb)
    ELSE None

\* both accessors answer, with equal answers
both_some_equal(s1, s2) == s1.st = "some" /\ s2.st = "some" /\ s1.v = s2.v

eq(self, other) ==
    IF both_some_equal(as_str(self), as_str(other)) THEN TRUE
    ELSE IF both_some_equal(as_int(self), as_int(other)) THEN TRUE
    ELSE IF both_some_equal(as_uint(self), as_uint(other)) THEN TRUE
    ELSE IF as_float(self).st = "some" /\ as_float(other).st = "some"
            /\ f64_eq(as_float(self).v, as_float(other).v) THEN TRUE
    ELSE IF both_some_equal(as_bool(self), as_bool(other)) THEN TRUE
    ELSE FALSE

(***************************************************************************)
(* SpecEq: eq applied to every pair of strings, numbers and booleans, in   *)
(* both argument orders.                                                   *)
(***************************************************************************)
s_2 == <<"2">>

EqValues ==
    {VStr(s_a), VStr(s_2), VInt(-1), VInt(0), VInt(2), VUInt(0), VUInt(2),
     VFloat(F64(-1, 1)), VFloat(F64(0, 1)), VFloat(F64(2, 1)), VFloat(F64(1, 2)), VFloat(NaN),
     VBool(TRUE), VBool(FALSE),
     JsonString(s_a), JsonString(s_2), JsonPosInt(2), JsonPosInt(U64_MAX), JsonNegInt(-1),
     JsonFloat(F64(2, 1)), JsonFloat(F64(1, 2)), JsonBool(TRUE)}

InitEq ==
    /\ input \in [self : EqValues, other : EqValues]
    /\ output = NotCalled
    /\ profile = "release"
    /\ IdleRenderer

Eq ==
    /\ output' = Called("eq", eq(input.self, input.other))
    /\ UNCHANGED <<input, profile, rendererVars>>

\* the same call with the arguments exchanged
EqSwapped ==
    /\ output.st = "called"
    /\ input' = [self |-> input.other, other |-> input.self]
    /\ output' = Called("eq", eq(input.other, input.self))
    /\ UNCHANGED <<profile, rendererVars>>

NextEq ==
    \/ Eq
    \/ EqSwapped

SpecEq == InitEq /\ [][NextEq]_vars

IsString(v) == v.t = "str" \/ (v.t = "json" /\ v.k = "String")
TextOf(v) == IF v.t = "str" THEN v.s ELSE v.js

IsNumber(v) == v.t \in {"int", "uint", "float"} \/ (v.t = "json" /\ v.k \in {"PosInt", "NegInt", "Float"})

\* the number a numeric value denotes, as a fraction (0/0 for NaN)
NumberOf(v) ==
    CASE v.t = "int" -> F64(v.n, 1)
      [] v.t = "uint" -> F64(v.u, 1)
      [] v.t = "float" -> v.f
      [] v.t = "json" /\ v.k = "PosInt" -> F64(v.ju, 1)
      [] v.t = "json" /\ v.k = "NegInt" -> F64(v.ji, 1)
      [] v.t = "json" /\ v.k = "Float" -> v.jf

SameNumber(v1, v2) ==
    /\ IsNumber(v1) /\ IsNumber(v2)
    /\ NumberOf(v1).d # 0
    /\ NumberOf(v1) = NumberOf(v2)

\* C18: under eq, strings of the same text are equal and numbers of the same
\* numeric value are equal whatever their representation (integer n and float
\* n.0, unsigned n and signed n), in both argument orders; a string never
\* equals a number.
C18_EqContract ==
    output.st = "called" =>
        /\ (IsString(input.self) /\ IsString(input.other)
               /\ TextOf(input.self) = TextOf(input.other)) => output.result = TRUE
        /\ SameNumber(input.self, input.other) => output.result = TRUE
        /\ (IsString(input.self) /\ IsNumber(input.other)) => output.result = FALSE
        /\ (IsNumber(input.self) /\ IsString(input.other)) => output.result = FALSE

(***************************************************************************)
(* The array filters nth, first and last (src/builtins/filters/array.rs).  *)
(* The argument map holds `n` or nothing.                                  *)
(***************************************************************************)
s_n == <<"n">>

ensure_value_is_array(value) == IF is_array(value) THEN Ok(Nil) ELSE Err("TypeMismatch")

\* Value::len
len(value) == IF is_array(value) THEN Some(Len(value.a)) ELSE None

\* value.get(index).unwrap_or(&"")
get_or_empty(value, index) ==
    LET element == get(value, index)
    IN  IF element.st = "some" THEN element.v ELSE VStr(s_empty)

nth(value, args) ==
    IF ensure_value_is_array(value).st = "err" THEN ensure_value_is_array(value)
    ELSE IF len(value) = Some(0) THEN Ok(VStr(s_empty))
    ELSE IF s_n \notin DOMAIN args THEN Err("MissingArgument")
    ELSE LET index == as_uint(args[s_n])
         IN  IF index.st = "none" THEN Err("TypeMismatch")
             ELSE Ok(get_or_empty(value, index.v))

first(value, args) ==
    IF ensure_value_is_array(value).st = "err" THEN ensure_value_is_array(value)
    ELSE Ok(get_or_empty(value, 0))

\* l - 1 on usize: aborts with overflow checks, wraps without
usize_sub_one(l) ==
    IF l > 0 THEN Some(l - 1)
    ELSE IF profile = "debug" THEN Panic
    ELSE Some(USIZE_MAX)

last(value, args) ==
    IF ensure_value_is_array(value).st = "err" THEN ensure_value_is_array(value)
    ELSE LET last_index == IF len(value).st = "some" THEN usize_sub_one(len(value).v) ELSE Some(0)
         IN  IF last_index = Panic THEN Panic
             ELSE Ok(get_or_empty(value, last_index.v))

(***************************************************************************)
(* SpecArrayFilter: the three filters applied to arrays of at most         *)
(* MaxArrayLen elements (and to values that are no arrays), under every    *)
(* argument map, in both build profiles.                                   *)
(***************************************************************************)
MaxArrayLen == 2

FilterElements == {VInt(1), VStr(s_a), VStr(s_empty)}

FilterArrays == {VArr(a) : a \in UNION {[1..n -> FilterElements] : n \in 0..MaxArrayLen}}

FilterValues == FilterArrays \cup {VStr(s_a), VInt(1)}

FilterArgs ==
    {EmptyMap} \cup {[k \in {s_n} |-> v] :
                        v \in {VUInt(i) : i \in 0..(MaxArrayLen + 1)}
                                 \cup {JsonPosInt(1), VInt(1), VStr(s_a)}}

InitArrayFilter ==
    /\ input \in [value : FilterValues, args : FilterArgs]
    /\ output = NotCalled
    /\ profile \in {"debug", "release"}
    /\ IdleRenderer

Nth ==
    /\ output' = Called("nth", nth(input.value, input.args))
    /\ UNCHANGED <<input, profile, rendererVars>>

First ==
    /\ output' = Called("first", first(input.value, input.args))
    /\ UNCHANGED <<input, profile, rendererVars>>

Last ==
    /\ output' = Called("last", last(input.value, input.args))
    /\ UNCHANGED <<input, profile, rendererVars>>

NextArrayFilter ==
    \/ Nth
    \/ First
    \/ Last

SpecArrayFilter == InitArrayFilter /\ [][NextArrayFilter]_vars

EmptyString == Ok(VStr(<<>>))

\* the argument `n` is present and is an unsigned integer
GivenIndex(args) ==
    /\ <<"n">> \in DOMAIN args
    /\ \/ args[<<"n">>].t = "uint"
       \/ args[<<"n">>].t = "json" /\ args[<<"n">>].k = "PosInt"

IndexOf(args) == IF args[<<"n">>].t = "uint" THEN args[<<"n">>].u ELSE args[<<"n">>].ju

\* C19: on an empty array first, last and nth each return the empty string (no
\* error, no abort) under every argument map; on a non-empty array first
\* returns element 0, last returns element len-1, and nth returns element n,
\* or the empty string when n >= len.
C19_ArrayDefaults ==
    (output.st = "called" /\ input.value.t = "arr") =>
        LET a == input.value.a
        IN  /\ Len(a) = 0 => output.result = EmptyString
            /\ (Len(a) > 0 /\ output.name = "first") => output.result = Ok(a[1])
            /\ (Len(a) > 0 /\ output.name = "last") => output.result = Ok(a[Len(a)])
            /\ (Len(a) > 0 /\ output.name = "nth" /\ GivenIndex(input.args)) =>
                  output.result = (IF IndexOf(input.args) < Len(a)
                                   THEN Ok(a[IndexOf(input.args) + 1]) ELSE EmptyString)

(***************************************************************************)
(* Rendering to text (Value::render in src/value.rs, ValueRender for the   *)
(* Value enum in src/context.rs).                                          *)
(***************************************************************************)
DigitChar(d) == CHOOSE c \in Digits : DigitValue(c) = d

\* u64::to_string
RECURSIVE u64_to_string(_)
u64_to_string(x) ==
    IF x < 10 THEN <<DigitChar(x)>> ELSE u64_to_string(x \div 10) \o <<DigitChar(x % 10)>>

\* i64::to_string
i64_to_string(x) == IF x < 0 THEN <<"-">> \o u64_to_string(-x) ELSE u64_to_string(x)

\* the decimal digits of r/d behind the point (d divides a power of ten)
RECURSIVE fraction_digits(_, _)
fraction_digits(r, d) ==
    IF r = 0 THEN <<>>
    ELSE <<DigitChar((r * 10) \div d)>> \o fraction_digits((r * 10) % d, d)

\* f64::to_string: no point for a whole number, NaN, inf and -inf spelled out
f64_to_string(x) ==
    IF is_nan(x) THEN <<"N", "a", "N">>
    ELSE IF ~is_finite(x) THEN (IF x.n > 0 THEN <<"i", "n", "f">> ELSE <<"-", "i", "n", "f">>)
    ELSE IF x.n % x.d = 0 THEN i64_to_string(x.n \div x.d)
    ELSE (IF x.n < 0 THEN <<"-">> ELSE <<>>)
            \o u64_to_string(Abs(x.n) \div x.d) \o <<".">> \o fraction_digits(Abs(x.n) % x.d, x.d)

\* bool::to_string
bool_to_string(b) == IF b THEN <<"t", "r", "u", "e">> ELSE <<"f", "a", "l", "s", "e">>

s_object == <<"[", "o", "b", "j", "e", "c", "t", "]">>

RECURSIVE render(_)
RECURSIVE render_elements(_, _)

\* the loop over the elements of an array: buf so far, the elements left
render_elements(buf, elements) ==
    IF elements = <<>> THEN buf
    ELSE LET separated == IF Len(buf) > 1 THEN buf \o <<",", " ">> ELSE buf
         IN  render_elements(separated \o render(Head(elements)), Tail(elements))

\* Value::render
render(v) ==
    IF as_str(v).st = "some" THEN as_str(v).v
    ELSE IF as_int(v).st = "some" THEN i64_to_string(as_int(v).v)
    ELSE IF as_uint(v).st = "some" THEN u64_to_string(as_uint(v).v)
    ELSE IF as_float(v).st = "some" THEN f64_to_string(as_float(v).v)
    ELSE IF as_bool(v).st = "some" THEN bool_to_string(as_bool(v).v)
    ELSE IF is_array(v) THEN render_elements(<<"[">>, v.a) \o <<"]">>
    ELSE IF is_object(v) THEN s_object
    ELSE s_empty

RECURSIVE ValueRender_render(_)
RECURSIVE ValueRender_elements(_, _)

ValueRender_elements(buf, elements) ==
    IF elements = <<>> THEN buf
    ELSE LET separated == IF Len(buf) > 1 THEN buf \o <<",", " ">> ELSE buf
         IN  ValueRender_elements(separated \o ValueRender_render(Head(elements)), Tail(elements))

\* <Value as ValueRender>::render, on the variants of the Value enum
ValueRender_render(v) ==
    CASE v.t = "str" -> v.s
      [] v.t = "int" -> i64_to_string(v.n)
      [] v.t = "float" -> f64_to_string(v.f)
      [] v.t = "bool" -> bool_to_string(v.b)
      [] v.t = "arr" -> ValueRender_elements(<<"[">>, v.a) \o <<"]">>
      [] v.t = "obj" -> s_object

(***************************************************************************)
(* SpecRender: both renderings applied to scalars, objects and arrays of   *)
(* at most MaxArrayLen elements, nested arrays included.                   *)
(***************************************************************************)
RenderScalars ==
    {VStr(s_empty), VStr(s_a), VInt(-1), VInt(12), VFloat(F64(5, 2)), VBool(TRUE), VObj(EmptyMap)}

RenderElements == RenderScalars \cup {VArr(<<>>), VArr(<<VStr(s_empty)>>), VArr(<<VInt(1), VInt(2)>>)}

RenderValues ==
    RenderElements \cup {VArr(a) : a \in UNION {[1..n -> RenderElements] : n \in 0..MaxArrayLen}}

InitRender ==
    /\ input \in RenderValues
    /\ output = NotCalled
    /\ profile = "release"
    /\ IdleRenderer

Render ==
    /\ output' = Called("Value::render", VStr(render(input)))
    /\ UNCHANGED <<input, profile, rendererVars>>

RenderEnum ==
    /\ output' = Called("ValueRender::render", VStr(ValueRender_render(input)))
    /\ UNCHANGED <<input, profile, rendererVars>>

NextRender ==
    \/ Render
    \/ RenderEnum

SpecRender == InitRender /\ [][NextRender]_vars

\* the rendering of an element by the function that was called
RenderingOf(name, v) == IF name = "Value::render" THEN render(v) ELSE ValueRender_render(v)

\* the texts joined by ", "
RECURSIVE CommaJoined(_)
CommaJoined(texts) ==
    IF texts = <<>> THEN <<>>
    ELSE IF Len(texts) = 1 THEN texts[1]
    ELSE texts[1] \o <<",", " ">> \o CommaJoined(Tail(texts))

\* C20: an array renders as `[`, the renderings of its elements in order joined
\* by `, `, and `]` (elements that render to the empty string included, the
\* empty array giving `[]`); an object renders as `[object]`.
C20_RenderArray ==
    output.st = "called" =>
        /\ input.t = "arr" =>
              output.result.s =
                  <<"[">> \o CommaJoined([i \in 1..Len(input.a) |-> RenderingOf(output.name, input.a[i])])
                      \o <<"]">>
        /\ input.t = "obj" => output.result.s = <<"[", "o", "b", "j", "e", "c", "t", "]">>

(***************************************************************************)
(* The testers (src/builtins/testers.rs).  A tester receives an optional   *)
(* value, None for a reference that did not resolve, and its parameters.   *)
(***************************************************************************)
number_args_allowed(tester_name, max, args_len) ==
    IF max = 0 /\ args_len > max THEN Err("TakesNoArgs")
    ELSE IF args_len > max THEN Err("TooManyArgs")
    ELSE Ok(Nil)

value_defined_always(tester_name, value) == Ok(Nil)

value_defined(tester_name, value) ==
    IF value = None THEN Err("UndefinedVariable") ELSE Ok(Nil)

defined(value, params) ==
    IF number_args_allowed("defined", 0, Len(params)).st = "err"
    THEN number_args_allowed("defined", 0, Len(params))
    ELSE Ok(VBool(value # None))

undefined(value, params) ==
    IF number_args_allowed("undefined", 0, Len(params)).st = "err"
    THEN number_args_allowed("undefined", 0, Len(params))
    ELSE Ok(VBool(value = None))

\* the two checks every other tester starts with: the error of the first one
\* that fails, Ok when both pass
tester_checks(tester_name, max, value, params) ==
    IF number_args_allowed(tester_name, max, Len(params)).st = "err"
    THEN number_args_allowed(tester_name, max, Len(params))
    ELSE value_defined(tester_name, value)

string(value, params) ==
    IF tester_checks("string", 0, value, params).st = "err"
    THEN tester_checks("string", 0, value, params)
    ELSE Ok(VBool(as_str(value.v) # None))

number(value, params) ==
    IF tester_checks("number", 0, value, params).st = "err"
    THEN tester_checks("number", 0, value, params)
    ELSE Ok(VBool(as_int(value.v) # None \/ as_uint(value.v) # None \/ as_float(value.v) # None))

to_number(v) ==
    IF as_float(v) # None THEN as_float(v)
    ELSE IF as_int(v) # None THEN Some(int_as_f64(as_int(v).v))
    ELSE IF as_uint(v) # None THEN Some(int_as_f64(as_uint(v).v))
    ELSE None

odd(value, params) ==
    IF tester_checks("odd", 0, value, params).st = "err"
    THEN tester_checks("odd", 0, value, params)
    ELSE IF to_number(value.v) = None THEN Err("NotANumber")
    ELSE Ok(VBool(~f64_eq(f64_rem(to_number(value.v).v, F64(2, 1)), F64(0, 1))))

even(value, params) ==
    IF tester_checks("even", 0, value, params).st = "err"
    THEN tester_checks("even", 0, value, params)
    ELSE IF odd(value, params).st = "err" THEN odd(value, params)
    ELSE Ok(VBool(~odd(value, params).v.b))

\* params.first()
first_param(params) == IF params = <<>> THEN None ELSE Some(params[1])

divisible_by(value, params) ==
    IF tester_checks("divisibleby", 1, value, params).st = "err"
    THEN tester_checks("divisibleby", 1, value, params)
    ELSE IF to_number(value.v) = None THEN Err("NotANumber")
    ELSE IF first_param(params) = None \/ to_number(first_param(params).v) = None
         THEN Err("ParamNotANumber")
    ELSE Ok(VBool(f64_eq(f64_rem(to_number(value.v).v, to_number(first_param(params).v).v),
                         F64(0, 1))))

iterable(value, params) ==
    IF tester_checks("iterable", 0, value, params).st = "err"
    THEN tester_checks("iterable", 0, value, params)
    ELSE Ok(VBool(is_array(value.v)))

extract_string(tester_name, part, value) ==
    IF value # None /\ as_str(value.v) # None THEN Ok(VStr(as_str(value.v).v))
    ELSE Err(part)

\* str::starts_with, str::ends_with, str::contains
starts_with(text, needle) ==
    Len(needle) <= Len(text) /\ SubSeq(text, 1, Len(needle)) = needle

ends_with(text, needle) ==
    Len(needle) <= Len(text) /\ SubSeq(text, Len(text) - Len(needle) + 1, Len(text)) = needle

contains(text, needle) ==
    \E i \in 1..(Len(text) + 1) : starts_with(SubSeq(text, i, Len(text)), needle)

starting_with(value, params) ==
    IF tester_checks("starting_with", 1, value, params).st = "err"
    THEN tester_checks("starting_with", 1, value, params)
    ELSE IF extract_string("starting_with", "NotAString", value).st = "err"
         THEN extract_string("starting_with", "NotAString", value)
    ELSE IF extract_string("starting_with", "ParamNotAString", first_param(params)).st = "err"
         THEN extract_string("starting_with", "ParamNotAString", first_param(params))
    ELSE Ok(VBool(starts_with(as_str(value.v).v, as_str(params[1]).v)))

ending_with(value, params) ==
    IF tester_checks("ending_with", 1, value, params).st = "err"
    THEN tester_checks("ending_with", 1, value, params)
    ELSE IF extract_string("ending_with", "NotAString", value).st = "err"
         THEN extract_string("ending_with", "NotAString", value)
    ELSE IF extract_string("ending_with", "ParamNotAString", first_param(params)).st = "err"
         THEN extract_string("ending_with", "ParamNotAString", first_param(params))
    ELSE Ok(VBool(ends_with(as_str(value.v).v, as_str(params[1]).v)))

\* `params.first().unwrap()` aborts when the array is tested without a parameter
containing(value, params) ==
    IF tester_checks("containing", 1, value, params).st = "err"
    THEN tester_checks("containing", 1, value, params)
    ELSE IF as_str(value.v) # None
         THEN IF extract_string("containing", "ParamNotAString", first_param(params)).st = "err"
              THEN extract_string("containing", "ParamNotAString", first_param(params))
              ELSE Ok(VBool(contains(as_str(value.v).v, as_str(params[1]).v)))
    ELSE IF is_array(value.v)
         THEN IF params = <<>> THEN Panic
              ELSE Ok(VBool(\E index \in 0..(len(value.v).v - 1) :
                                eq(get(value.v, index).v, params[1])))
    ELSE IF is_object(value.v)
         THEN IF extract_string("containing", "ParamNotAString", first_param(params)).st = "err"
              THEN extract_string("containing", "ParamNotAString", first_param(params))
              ELSE Ok(VBool(get_prop(value.v, as_str(params[1]).v) # None))
    ELSE Err("NotAContainer")

\* Regex::new for the patterns used here: a text of letters is a valid pattern
\* that matches itself anywhere in the haystack, `(` is not a valid pattern
Regex_new(regex) == IF "(" \in {regex[i] : i \in 1..Len(regex)} THEN Err("InvalidRegex") ELSE Ok(VStr(regex))

matching(value, params) ==
    IF tester_checks("matching", 1, value, params).st = "err"
    THEN tester_checks("matching", 1, value, params)
    ELSE IF extract_string("matching", "NotAString", value).st = "err"
         THEN extract_string("matching", "NotAString", value)
    ELSE IF extract_string("matching", "ParamNotAString", first_param(params)).st = "err"
         THEN extract_string("matching", "ParamNotAString", first_param(params))
    ELSE IF Regex_new(as_str(params[1]).v).st = "err" THEN Regex_new(as_str(params[1]).v)
    ELSE Ok(VBool(contains(as_str(value.v).v, Regex_new(as_str(params[1]).v).v.s)))

(***************************************************************************)
(* SpecTester: every tester applied to an absent value and to present      *)
(* values, the falsy ones included, with zero, one and two parameters.     *)
(***************************************************************************)
s_paren == <<"(">>

TesterValues ==
    {None} \cup {Some(v) : v \in {VBool(FALSE), VBool(TRUE), VInt(0), VInt(3), VFloat(F64(5, 2)),
                                  VStr(s_empty), VStr(s_ab), VArr(<<>>), VArr(<<VInt(3)>>),
                                  VObj(EmptyMap), VObj([k \in {s_a} |-> VInt(0)])}}

TesterParams ==
    {<<>>, <<VInt(3)>>, <<VInt(0)>>, <<VStr(s_a)>>, <<VStr(s_paren)>>, <<VInt(1), VInt(2)>>}

TesterNames ==
    {"defined", "undefined", "string", "number", "odd", "even", "divisibleby", "iterable",
     "starting_with", "ending_with", "containing", "matching"}

\* the tester registered under a name, applied
test(name, value, params) ==
    CASE name = "defined" -> defined(value, params)
      [] name = "undefined" -> undefined(value, params)
      [] name = "string" -> string(value, params)
      [] name = "number" -> number(value, params)
      [] name = "odd" -> odd(value, params)
      [] name = "even" -> even(value, params)
      [] name = "divisibleby" -> divisible_by(value, params)
      [] name = "iterable" -> iterable(value, params)
      [] name = "starting_with" -> starting_with(value, params)
      [] name = "ending_with" -> ending_with(value, params)
      [] name = "containing" -> containing(value, params)
      [] name = "matching" -> matching(value, params)

InitTester ==
    /\ input \in [value : TesterValues, params : TesterParams]
    /\ output = NotCalled
    /\ profile = "release"
    /\ IdleRenderer

Test ==
    /\ \E name \in TesterNames : output' = Called(name, test(name, input.value, input.params))
    /\ UNCHANGED <<input, profile, rendererVars>>

NextTester == Test

SpecTester == InitTester /\ [][NextTester]_vars

\* values that are present and falsy
FalsyValues == {VBool(FALSE), VInt(0), VStr(<<>>), VArr(<<>>)}

\* C21: without arguments defined(v) is true iff v is present (a present falsy
\* value included) and undefined(v) is true iff v is absent, so the two are
\* complementary on every input; both return an error when given any argument;
\* every other tester returns an error on an absent value.
C21_Testers ==
    output.st = "called" =>
        /\ output.name = "defined" /\ input.params = <<>> =>
              /\ output.result = Ok(VBool(input.value.st = "some"))
              /\ undefined(input.value, input.params) = Ok(VBool(~output.result.v.b))
        /\ output.name = "undefined" /\ input.params = <<>> =>
              /\ output.result = Ok(VBool(input.value.st = "none"))
              /\ defined(input.value, input.params) = Ok(VBool(~output.result.v.b))
        /\ output.name \in {"defined", "undefined"} /\ input.params # <<>> =>
              output.result.st = "err"
        /\ output.name \notin {"defined", "undefined"} /\ input.value.st = "none" =>
              output.result.st = "err"

C21_Witness ==
    /\ output.st = "called"
    /\ output.name = "defined"
    /\ input.params = <<>>
    /\ input.value.st = "some"
    /\ input.value.v \in FalsyValues
    /\ output.result = Ok(VBool(TRUE))

(***************************************************************************)
(* The sort filter (src/builtins/filters/array.rs).  The argument map      *)
(* holds `attribute` or nothing.  The comparison closure handed to         *)
(* slice::sort_by unwraps the key of either element and the result of the  *)
(* strategy's comparison, so a failure inside it is an abort.              *)
(***************************************************************************)
s_attribute == <<"a", "t", "t", "r", "i", "b", "u", "t", "e">>

Ordering(o) == [t |-> "ordering", o |-> o]

\* SortStrategy::cmp: the two keys derived under the strategy and compared
cmp(strategy, key1, key2) ==
    LET k1 == get_sort_key(strategy.K, key1)
        k2 == get_sort_key(strategy.K, key2)
    IN  IF k1.st = "err" THEN k1
        ELSE IF k2.st = "err" THEN k2
        ELSE IF key_lt(strategy.K, k1.v, k2.v) THEN Ok(Ordering("Less"))
        ELSE IF key_lt(strategy.K, k2.v, k1.v) THEN Ok(Ordering("Greater"))
        ELSE Ok(Ordering("Equal"))

\* the closure of sort_by: Panic when a key is missing or the comparison fails
sort_closure(strategy, attribute, v1, v2) ==
    LET key1 == get_by_pointer(v1, attribute)
        key2 == get_by_pointer(v2, attribute)
    IN  IF key1.st = "none" \/ key2.st = "none" THEN Panic
        ELSE IF cmp(strategy, key1.v, key2.v).st = "err" THEN Panic
        ELSE cmp(strategy, key1.v, key2.v)

\* the place of an element among sorted ones: behind every element that does
\* not compare greater; Panic when a comparison aborts
RECURSIVE insert_by(_, _, _, _)
insert_by(strategy, attribute, sorted, v) ==
    IF sorted = <<>> THEN Ok(<<v>>)
    ELSE LET ordering == sort_closure(strategy, attribute, v, Head(sorted))
         IN  IF ordering = Panic THEN Panic
             ELSE IF ordering.v.o = "Less" THEN Ok(<<v>> \o sorted)
             ELSE LET rest == insert_by(strategy, attribute, Tail(sorted), v)
                  IN  IF rest = Panic THEN Panic ELSE Ok(<<Head(sorted)>> \o rest.v)

\* slice::sort_by, a stable sort
RECURSIVE sort_by(_, _, _)
sort_by(strategy, attribute, result) ==
    IF result = <<>> THEN Ok(<<>>)
    ELSE LET sorted == sort_by(strategy, attribute, SubSeq(result, 1, Len(result) - 1))
         IN  IF sorted = Panic THEN Panic
             ELSE insert_by(strategy, attribute, sorted.v, result[Len(result)])

sort(value, args) ==
    IF ensure_value_is_array(value).st = "err" THEN ensure_value_is_array(value)
    ELSE IF len(value) = Some(0) THEN Ok(value)
    ELSE IF s_attribute \in DOMAIN args /\ as_str(args[s_attribute]).st = "none"
         THEN Err("TypeMismatch")
    ELSE LET attribute == IF s_attribute \in DOMAIN args THEN as_str(args[s_attribute]).v
                          ELSE s_empty
             first_key == get_by_pointer(get(value, 0).v, attribute)
         IN  IF first_key.st = "none" THEN Err("AttributeNotAField")
             ELSE LET strategy == get_sort_strategy_for_type(first_key.v)
                  IN  IF strategy.st = "err" THEN strategy
                      ELSE LET result == sort_by(strategy.v, attribute, value.a)
                           IN  IF result = Panic THEN Panic ELSE Ok(VArr(result.v))

(***************************************************************************)
(* SpecSortFilter: the filter applied to arrays of at most MaxColumn       *)
(* elements, integers and objects with or without the fields `a` and `b`,  *)
(* without an attribute and with the attributes `a` and `b`.               *)
(***************************************************************************)
SortFilterElements ==
    {VInt(1), VInt(2), VInt(3),
     VObj([k \in {s_a, s_b} |-> VInt(1)]), VObj([k \in {s_a} |-> VInt(2)]),
     VObj([k \in {s_b} |-> VInt(3)])}

SortFilterValues ==
    {VArr(a) : a \in UNION {[1..n -> SortFilterElements] : n \in 0..MaxColumn}} \cup {VInt(1)}

SortFilterArgs ==
    {EmptyMap} \cup {[k \in {s_attribute} |-> v] : v \in {VStr(s_a), VStr(s_b), VInt(1)}}

InitSortFilter ==
    /\ input \in [value : SortFilterValues, args : SortFilterArgs]
    /\ output = NotCalled
    /\ profile = "release"
    /\ IdleRenderer

SortFilter ==
    /\ output' = Called("sort", sort(input.value, input.args))
    /\ UNCHANGED <<input, profile, rendererVars>>

NextSortFilter == SortFilter

SpecSortFilter == InitSortFilter /\ [][NextSortFilter]_vars

\* the array holds integers only
IsIntegerArray(value) ==
    is_array(value) /\ \A i \in 1..Len(value.a) : value.a[i].t = "int"

\* the sequence is a rearrangement of the array's integers in ascending order
AscendingOf(sorted, a) ==
    /\ Len(sorted) = Len(a)
    /\ \A i \in 1..(Len(sorted) - 1) : sorted[i].n <= sorted[i + 1].n
    /\ \A x \in {a[i] : i \in 1..Len(a)} :
          Cardinality({i \in 1..Len(a) : a[i] = x}) =
              Cardinality({i \in 1..Len(sorted) : sorted[i] = x})

\* C22: called without `attribute`, the sort filter sorts by the elements
\* themselves: an array of integers is returned in ascending order and an empty
\* array is returned unchanged.
C22_SortWithoutAttribute ==
    output.st = "called" /\ input.args = EmptyMap /\ IsIntegerArray(input.value) =>
        /\ output.result.st = "ok"
        /\ AscendingOf(output.result.v.a, input.value.a)
        /\ input.value.a = <<>> => output.result.v = input.value

\* the attribute is given as a string and does not resolve on some element
AttributeFails(value, args) ==
    /\ is_array(value)
    /\ <<"a", "t", "t", "r", "i", "b", "u", "t", "e">> \in DOMAIN args
    /\ args[<<"a", "t", "t", "r", "i", "b", "u", "t", "e">>].t = "str"
    /\ \E i \in 1..Len(value.a) :
          get_by_pointer(value.a[i], args[<<"a", "t", "t", "r", "i", "b", "u", "t", "e">>].s) = None

\* C23: whenever the attribute fails to resolve on an element of the array, the
\* first or a later one, the sort filter returns the error `attribute '<a>' does
\* not reference a field`; it does not abort.
C23_AttributeError ==
    output.st = "called" /\ AttributeFails(input.value, input.args) =>
        output.result = Err("AttributeNotAField")

(***************************************************************************)
(* The global function range (src/builtins/functions.rs).  The argument    *)
(* map holds `start`, `end` and `step_by` or a part of them.  The loop     *)
(* that fills the vector is taken one iteration at a time: `output` holds  *)
(* the locals `i` and `res` while the call is running.  u64 is scaled to   *)
(* IntBits bits, and a vector holds at most VecCapacity elements: a push   *)
(* beyond it is an allocation failure, which aborts.                       *)
(***************************************************************************)
s_start == <<"s", "t", "a", "r", "t">>
s_end == <<"e", "n", "d">>
s_step_by == <<"s", "t", "e", "p", "_", "b", "y">>

VecCapacity == 2 ^ IntBits

\* one of the three `match args.get(name)` blocks: the u64 of the argument, the
\* default when it is absent (None for `end`, which has none)
range_arg(args, name, default) ==
    IF name \in DOMAIN args
    THEN IF as_uint(args[name]).st = "some" THEN Ok(VUInt(as_uint(args[name]).v))
         ELSE Err("NotANumber")
    ELSE IF default = None THEN Err("MissingEnd")
    ELSE Ok(VUInt(default.v))

\* the function up to the loop: an error, or the locals start, step_by and end
range_locals(args) ==
    LET start == range_arg(args, s_start, Some(0))
        step_by == range_arg(args, s_step_by, Some(1))
        end == range_arg(args, s_end, None)
    IN  IF start.st = "err" THEN start
        ELSE IF step_by.st = "err" THEN step_by
        ELSE IF end.st = "err" THEN end
        ELSE IF start.v.u > end.v.u THEN Err("StartGreaterThanEnd")
        ELSE Ok([start |-> start.v.u, step_by |-> step_by.v.u, end |-> end.v.u])

\* u64 `+=`: aborts on overflow with overflow checks, wraps without
u64_add(x, y) ==
    IF x + y <= U64_MAX THEN Some(x + y)
    ELSE IF profile = "debug" THEN Panic
    ELSE Some((x + y) % (2 ^ IntBits))

\* Vec::push
Vec_push(res, x) == IF Len(res) < VecCapacity THEN Some(Append(res, x)) ELSE Panic

InLoop(i, res) == [st |-> "running", i |-> i, res |-> res]

\* one iteration of `while i < end { res.Vec_push(i); i += step_by; }`
range_loop(i, res, step_by) ==
    IF Vec_push(res, VUInt(i)) = Panic \/ u64_add(i, step_by) = Panic THEN Called("range", Panic)
    ELSE InLoop(u64_add(i, step_by).v, Vec_push(res, VUInt(i)).v)

(***************************************************************************)
(* SpecRange: range called with every combination of absent and given      *)
(* arguments, small and near the top of u64, in both build profiles.       *)
(* SpecRangeLive adds that a call that can take a step takes it: the       *)
(* function runs on the calling thread until it returns or aborts.         *)
(***************************************************************************)
RangeNumbers == {VUInt(0), VUInt(1), VUInt(2), VUInt(U64_MAX - 1), VUInt(U64_MAX), VInt(1)}

RangeArgs ==
    UNION {[names -> RangeNumbers] : names \in SUBSET {s_start, s_end, s_step_by}}

InitRange ==
    /\ input \in RangeArgs
    /\ output = NotCalled
    /\ profile \in {"debug", "release"}
    /\ IdleRenderer

RangeCall ==
    /\ output = NotCalled
    /\ output' = IF range_locals(input).st = "err" THEN Called("range", range_locals(input))
                 ELSE InLoop(range_locals(input).v.start, <<>>)
    /\ UNCHANGED <<input, profile, rendererVars>>

RangeLoop ==
    /\ output.st = "running"
    /\ output.i < range_locals(input).v.end
    /\ output' = range_loop(output.i, output.res, range_locals(input).v.step_by)
    /\ UNCHANGED <<input, profile, rendererVars>>

RangeReturn ==
    /\ output.st = "running"
    /\ ~(output.i < range_locals(input).v.end)
    /\ output' = Called("range", Ok(VArr(output.res)))
    /\ UNCHANGED <<input, profile, rendererVars>>

NextRange ==
    \/ RangeCall
    \/ RangeLoop
    \/ RangeReturn

SpecRange == InitRange /\ [][NextRange]_vars

SpecRangeLive == SpecRange /\ WF_vars(NextRange)

\* the arguments that are given are unsigned integers
UnsignedArgs(args) == \A name \in DOMAIN args : args[name].t = "uint"

ArgOr(args, name, default) == IF name \in DOMAIN args THEN args[name].u ELSE default

\* the terms start, start + step_by, ... below end, step_by >= 1
Terms(start, end, step_by) ==
    LET n == IF start >= end THEN 0 ELSE ((end - start - 1) \div step_by) + 1
    IN  [k \in 1..n |-> VUInt(start + (k - 1) * step_by)]

IsPrefix(s, t) == Len(s) <= Len(t) /\ \A k \in 1..Len(s) : s[k] = t[k]

\* C24: range(start, end, step_by), start defaulting to 0 and step_by to 1,
\* returns exactly the ascending sequence start, start + step_by, ... of the
\* terms below end; it returns an error when start > end and when `end` is
\* missing.  (The call does not abort and collects nothing but these terms.)
C24_Range ==
    UnsignedArgs(input) /\ output.st # "idle" =>
        LET start == ArgOr(input, <<"s", "t", "a", "r", "t">>, 0)
            step_by == ArgOr(input, <<"s", "t", "e", "p", "_", "b", "y">>, 1)
            given == <<"e", "n", "d">> \in DOMAIN input
            end == ArgOr(input, <<"e", "n", "d">>, 0)
        IN  IF ~given \/ start > end THEN output.st = "called" /\ output.result.st = "err"
            ELSE IF output.st = "running"
                 THEN step_by > 0 => IsPrefix(output.res, Terms(start, end, step_by))
            ELSE /\ output.result.st = "ok"
                 /\ start = end => output.result.v.a = <<>>
                 /\ start < end => step_by > 0 /\ output.result.v.a = Terms(start, end, step_by)

\* C28: a call to range always terminates, returning an array or an error, for
\* every combination of unsigned start, end and step_by, step_by = 0 with
\* start < end included.
C28_RangeTerminates ==
    UnsignedArgs(input) => <>(output.st = "called" /\ output.result.st \in {"ok", "err"})

(***************************************************************************)
(* The slice filter (src/builtins/filters/array.rs).  The argument map     *)
(* holds `start` and `end` or a part of them; `arr` is the array handed    *)
(* in.                                                                     *)
(***************************************************************************)
\* try_get_value!(.., f64, val): the number as a float, an error for a value
\* that is no number
try_get_value_f64(val) ==
    IF to_number(val) = None THEN Err("TypeMismatch") ELSE Ok(VFloat(to_number(val).v))

\* f64 `as usize`: rounds toward zero and saturates (NaN and negatives give 0)
f64_as_usize(f) ==
    IF is_nan(f) THEN 0
    ELSE IF ~is_finite(f) THEN (IF f.n > 0 THEN USIZE_MAX ELSE 0)
    ELSE IF f.n < 0 THEN 0
    ELSE f.n \div f.d

\* usize `>` with the saturated value
usize_gt(x, y) == x # y /\ (x = USIZE_MAX \/ (y # USIZE_MAX /\ x > y))

\* arr[start..end], end <= arr.len(): aborts when start > end
index_range(arr, start, end) ==
    IF usize_gt(start, end) THEN Panic ELSE Ok(VArr(SubSeq(arr, start + 1, end)))

\* the filter `slice` (the name slice is taken by the slicing of texts)
array_slice(value, args) ==
    IF ensure_value_is_array(value).st = "err" THEN ensure_value_is_array(value)
    ELSE IF len(value) = Some(0) THEN Ok(value)
    ELSE IF s_start \in DOMAIN args /\ try_get_value_f64(args[s_start]).st = "err"
         THEN try_get_value_f64(args[s_start])
    ELSE LET arr == value.a
             start == IF s_start \in DOMAIN args
                      THEN f64_as_usize(try_get_value_f64(args[s_start]).v.f) ELSE 0
         IN  IF usize_gt(start, Len(arr)) THEN Ok(VArr(<<>>))
             ELSE IF s_end \in DOMAIN args /\ try_get_value_f64(args[s_end]).st = "err"
                  THEN try_get_value_f64(args[s_end])
             ELSE LET given == IF s_end \in DOMAIN args
                               THEN f64_as_usize(try_get_value_f64(args[s_end]).v.f)
                               ELSE Len(arr)
                      end == IF usize_gt(given, Len(arr)) THEN Len(arr) ELSE given
                  IN  index_range(arr, start, end)

(***************************************************************************)
(* SpecSlice: the filter applied to arrays of at most MaxColumn elements   *)
(* with `start` and `end` absent, inside, at and beyond the length, given  *)
(* as unsigned, signed and float numbers.                                  *)
(***************************************************************************)
SliceValues == {VArr([i \in 1..n |-> VInt(i)]) : n \in 0..MaxColumn} \cup {VInt(1)}

SliceNumbers ==
    {VUInt(i) : i \in 0..(MaxColumn + 1)}
        \cup {VInt(1), VInt(-1), VFloat(F64(2, 1)), VFloat(F64(3, 2)), VFloat(Infinity), VStr(s_a)}

SliceArgs == UNION {[names -> SliceNumbers] : names \in SUBSET {s_start, s_end}}

InitSlice ==
    /\ input \in [value : SliceValues, args : SliceArgs]
    /\ output = NotCalled
    /\ profile = "release"
    /\ IdleRenderer

Slice ==
    /\ output' = Called("slice", array_slice(input.value, input.args))
    /\ UNCHANGED <<input, profile, rendererVars>>

NextSlice == Slice

SpecSlice == InitSlice /\ [][NextSlice]_vars

\* the argument, when given, is a whole number that is not negative
WholeArg(args, name) ==
    name \in DOMAIN args =>
        \/ args[name].t = "uint"
        \/ args[name].t = "int" /\ args[name].n >= 0
        \/ args[name].t = "float" /\ args[name].f.d = 1 /\ args[name].f.n >= 0

WholeOf(args, name, default) ==
    IF name \notin DOMAIN args THEN default
    ELSE IF args[name].t = "uint" THEN args[name].u
    ELSE IF args[name].t = "int" THEN args[name].n
    ELSE args[name].f.n

Min(x, y) == IF x < y THEN x ELSE y

\* the elements of the array at the indices in the set, in the array's order
RECURSIVE ElementsAt(_, _, _)
ElementsAt(a, indices, i) ==
    IF i >= Len(a) THEN <<>>
    ELSE (IF i \in indices THEN <<a[i + 1]>> ELSE <<>>) \o ElementsAt(a, indices, i + 1)

\* C25: slice returns the elements at the indices i with start <= i <
\* min(end, len) in the original order, start defaulting to 0 and end to len;
\* for every non-negative start and end it returns an array, the empty one when
\* the range is empty, not an error or an abort.
C25_Slice ==
    /\ output.st = "called"
    /\ is_array(input.value)
    /\ WholeArg(input.args, <<"s", "t", "a", "r", "t">>)
    /\ WholeArg(input.args, <<"e", "n", "d">>)
    => LET l == Len(input.value.a)
           start == WholeOf(input.args, <<"s", "t", "a", "r", "t">>, 0)
           end == WholeOf(input.args, <<"e", "n", "d">>, l)
       IN  output.result =
               Ok(VArr(ElementsAt(input.value.a, {i \in 0..l : start <= i /\ i < Min(end, l)}, 0)))

(***************************************************************************)
(* A further property of the checked operations (SpecNumber).              *)
(***************************************************************************)
\* C29: checked_div and checked_modulo never abort: for every pair of operands
\* (Int(i64::MIN) with Int(-1) and UInt operands above i64::MAX paired with Int
\* operands included) they return a Number or no-result.
C29_CheckedNeverAborts ==
    output.st = "called" => output.result.st \in {"some", "none"}

(***************************************************************************)
(* Further properties of one StackFrame (SpecFrame).                       *)
(***************************************************************************)
\* what the for-loop state alone gives for a key, stated on its segments: the
\* current key for the key-name, the built-ins for loop.<name>, the current
\* element or the traversal into it for the value-name
LoopDenotes(f, key) ==
    LET fl == f.for_loop.v
        p == fl.current
        element == fl.values[p + 1]
    IN  IF IsKeyName(f, key) THEN Some(VStr(fl.keys[p + 1]))
        ELSE IF FirstSegment(key) = <<"l", "o", "o", "p">>
        THEN CASE key = Dotted(s_loop, s_index) -> Some(VUInt(p + 1))
               [] key = Dotted(s_loop, s_index0) -> Some(VUInt(p))
               [] key = Dotted(s_loop, s_first) -> Some(VBool(p = 0))
               [] key = Dotted(s_loop, s_last) -> Some(VBool(p = Len(fl.values) - 1))
               [] OTHER -> None
        ELSE IF key = fl.value_name THEN Some(element)
        ELSE IF IsPathInto(key, fl.value_name) THEN ReachedBy(element, RestSegments(key))
        ELSE None

\* C26: when the first segment of the key names a local binding of a ForLoop
\* frame and the rest of the path does not resolve against that binding,
\* find_value goes on with the for-loop checks of the same frame: item.id gives
\* the id of the current element when a binding item without id exists and the
\* loop's value-name is item.
C26_FallThroughToLoop ==
    (/\ op.name = "find_value"
     /\ AtElement(frame)
     /\ FirstSegment(op.key) \in DOMAIN frame.context
     /\ Len(SegmentsOf(op.key)) > 1
     /\ LocalValue(frame, op.key) = None)
        => op.result = LoopDenotes(frame, op.key)

\* a binding item = 10 has no id; item.id is the id of the current element
C26_Witness ==
    /\ op.name = "find_value"
    /\ op.key = Dotted(s_item, s_id)
    /\ frame.for_loop = Some(increment(LoopItems))
    /\ s_item \in DOMAIN frame.context
    /\ frame.context[s_item] = VInt(10)
    /\ op.result = Some(VInt(2))

\* the frame carries for-loop state iff its kind is ForLoop, and a macro
\* namespace iff its kind is Macro
KindMatchesState(f) ==
    /\ f.for_loop.st = "some" <=> f.kind = "ForLoop"
    /\ f.macro_namespace.st = "some" <=> f.kind = "Macro"

C30_FindValueNeverAborts ==
    op.name = "find_value" => op.result.st \in {"some", "none"}
====
